---------------------------- MODULE Spec2Model ----------------------------
(***************************************************************************)
(* Model of the conversational message-routing engine of the ChatBot       *)
(* component (src/unnamed/part_004): the intent classifier, the search-    *)
(* term extractor, the knowledge-base matcher and the handleSend state     *)
(* machine together with the handlers that share its session state.        *)
(*                                                                         *)
(* Message texts and file names are TLA+ strings; the classifier works on  *)
(* them character by character, as the JavaScript does.                    *)
(***************************************************************************)
EXTENDS Integers, Sequences, FiniteSets, TLC

(***************************************************************************)
(* String primitives (JavaScript String methods used by the classifier).   *)
(***************************************************************************)
\* The null of a nullable record; an absent string is "".
NULL == [null |-> TRUE]

UpperAlpha == "ABCDEFGHIJKLMNOPQRSTUVWXYZ"
LowerAlpha == "abcdefghijklmnopqrstuvwxyz"
Digits == "0123456789"
WhiteSpace == {" ", "\t", "\n", "\r"}

Char(s, i) == SubSeq(s, i, i)

DigitChars == {Char(Digits, k) : k \in 1..10}
UpperChars == {Char(UpperAlpha, k) : k \in 1..26}
LowerChars == {Char(LowerAlpha, k) : k \in 1..26}

IsDigit(c) == c \in DigitChars

DigitValueOf == [c \in DigitChars |-> (CHOOSE k \in 1..10 : Char(Digits, k) = c) - 1]

DigitValue(c) == DigitValueOf[c]

\* \w of a regular expression
WordChars == DigitChars \cup UpperChars \cup LowerChars \cup {"_"}

IsWordChar(c) == c \in WordChars

LowerOf ==
    [c \in UpperChars |-> Char(LowerAlpha, CHOOSE k \in 1..26 : Char(UpperAlpha, k) = c)]

LowerChar(c) == IF c \in UpperChars THEN LowerOf[c] ELSE c

RECURSIVE toLowerCase(_)
toLowerCase(s) ==
    IF Len(s) = 0 THEN ""
    ELSE LowerChar(Char(s, 1)) \o toLowerCase(SubSeq(s, 2, Len(s)))

includes(s, t) ==
    \E i \in 1..(Len(s) - Len(t) + 1) : SubSeq(s, i, i + Len(t) - 1) = t

startsWith(s, t) == Len(t) <= Len(s) /\ SubSeq(s, 1, Len(t)) = t

endsWith(s, t) == Len(t) <= Len(s) /\ SubSeq(s, Len(s) - Len(t) + 1, Len(s)) = t

RECURSIVE trimStart(_)
trimStart(s) ==
    IF Len(s) > 0 /\ Char(s, 1) \in WhiteSpace
    THEN trimStart(SubSeq(s, 2, Len(s))) ELSE s

RECURSIVE trimEnd(_)
trimEnd(s) ==
    IF Len(s) > 0 /\ Char(s, Len(s)) \in WhiteSpace
    THEN trimEnd(SubSeq(s, 1, Len(s) - 1)) ELSE s

trim(s) == trimEnd(trimStart(s))

\* some(kw => s.includes(kw)) over a keyword list
includesAny(s, kws) == \E k \in 1..Len(kws) : includes(s, kws[k])

\* End of the maximal digit run that starts at position i (i - 1 when s[i] is no digit).
RECURSIVE DigitRunEnd(_, _)
DigitRunEnd(s, i) ==
    IF i <= Len(s) /\ IsDigit(Char(s, i)) THEN DigitRunEnd(s, i + 1) ELSE i - 1

\* First position at or after i whose character is not in the set cs.
RECURSIVE SkipChars(_, _, _)
SkipChars(s, i, cs) ==
    IF i <= Len(s) /\ Char(s, i) \in cs THEN SkipChars(s, i + 1, cs) ELSE i

\* parseInt(s, 10): the leading decimal digits of the trimmed text, -1 for NaN.
RECURSIVE DigitsValue(_, _)
DigitsValue(s, acc) ==
    IF Len(s) = 0 \/ ~IsDigit(Char(s, 1)) THEN acc
    ELSE DigitsValue(SubSeq(s, 2, Len(s)), acc * 10 + DigitValue(Char(s, 1)))

parseInt(s) ==
    LET t == trimStart(s)
    IN  IF Len(t) > 0 /\ IsDigit(Char(t, 1)) THEN DigitsValue(t, 0) ELSE -1

\* s.split('.').pop().toLowerCase(): the text after the last dot, the whole text without one.
RECURSIVE AfterLastDot(_, _)
AfterLastDot(s, i) ==
    IF i = 0 THEN s
    ELSE IF Char(s, i) = "." THEN SubSeq(s, i + 1, Len(s))
    ELSE AfterLastDot(s, i - 1)

extensionOf(name) == toLowerCase(AfterLastDot(name, Len(name)))

\* message.split(/\s+/): the maximal runs of non-blank characters, in order.
RECURSIVE splitWords(_)
splitWords(s) ==
    LET t == trimStart(s)
        e == CHOOSE j \in 0..Len(t) :
                 /\ \A k \in 1..j : Char(t, k) \notin WhiteSpace
                 /\ (j = Len(t) \/ Char(t, j + 1) \in WhiteSpace)
    IN  IF Len(t) = 0 THEN <<>>
        ELSE <<SubSeq(t, 1, e)>> \o splitWords(SubSeq(t, e + 1, Len(t)))

RECURSIVE joinWith(_, _)
joinWith(ws, sep) ==
    IF Len(ws) = 0 THEN ""
    ELSE IF Len(ws) = 1 THEN ws[1]
    ELSE ws[1] \o sep \o joinWith(Tail(ws), sep)

SeqContains(seq, x) == \E k \in 1..Len(seq) : seq[k] = x

Min(a, b) == IF a <= b THEN a ELSE b

\* Array.prototype.slice(0, n)
slice(seq, n) == SubSeq(seq, 1, Min(n, Len(seq)))

(***************************************************************************)
(* IntentClassifier: pure predicates over the message text.                *)
(***************************************************************************)
\* /^\s*\d+\s*$/.test(message.trim())
isNumberSelection(message) ==
    LET t == trim(message)
    IN  Len(t) > 0 /\ \A k \in 1..Len(t) : IsDigit(Char(t, k))

readKeywords ==
    <<"read", "summarize", "summary", "content", "what does", "what is in",
      "tell me about", "explain", "transcript", "meeting", "recording", "call">>

isReadSummaryRequest(message) == includesAny(toLowerCase(message), readKeywords)

videoExtensions == <<"mp4", "mov", "avi", "mkv", "webm">>

isVideoFile(fileName) == SeqContains(videoExtensions, extensionOf(fileName))

actionKeywords ==
    <<"find", "search", "show", "get", "list", "check", "want", "need", "look",
      "related", "about", "share", "give">>

fileKeywords ==
    <<"file", "files", "document", "documents", "sheet", "sheets", "video",
      "recording", "recordings", "image", "images">>

specificTerms ==
    <<"arogya", "sanjeevani", "top up", "topup", "product", "policy", "health">>

isFileSearchRequest(message) ==
    LET lowerMsg == toLowerCase(message)
    IN  \/ includesAny(lowerMsg, actionKeywords)
        \/ includesAny(lowerMsg, fileKeywords)
        \/ includesAny(lowerMsg, specificTerms)

\* One count pattern /kw\s*(\d+)/: the number of the leftmost match, -1 without a match.
KeywordNumber(s, kw) ==
    LET starts == {i \in 1..(Len(s) - Len(kw) + 1) :
                     /\ SubSeq(s, i, i + Len(kw) - 1) = kw
                     /\ LET d == SkipChars(s, i + Len(kw), WhiteSpace)
                        IN  DigitRunEnd(s, d) >= d}
    IN  IF starts = {} THEN -1
        ELSE LET i == CHOOSE a \in starts : \A b \in starts : a <= b
                 d == SkipChars(s, i + Len(kw), WhiteSpace)
             IN  DigitsValue(SubSeq(s, d, DigitRunEnd(s, d)), 0)

countNouns == <<"file", "document", "result", "item">>

\* The pattern /(\d+)\s*(?:files?|documents?|results?|items?)/
NumberNoun(s) ==
    LET starts == {i \in 1..Len(s) :
                     /\ IsDigit(Char(s, i))
                     /\ LET w == SkipChars(s, DigitRunEnd(s, i) + 1, WhiteSpace)
                        IN  \E k \in 1..Len(countNouns) :
                                startsWith(SubSeq(s, w, Len(s)), countNouns[k])}
    IN  IF starts = {} THEN -1
        ELSE LET i == CHOOSE a \in starts : \A b \in starts : a <= b
             IN  DigitsValue(SubSeq(s, i, DigitRunEnd(s, i)), 0)

countKeywords == <<"top", "first", "show", "list", "get">>

MaxRequestedCount == 50

\* The requested count taken from the first pattern that matches only.
getRequestedCountOfFirstMatch(message) ==
    LET lowerMsg == toLowerCase(message)
        nums == [k \in 1..6 |->
                    IF k <= 5 THEN KeywordNumber(lowerMsg, countKeywords[k])
                    ELSE NumberNoun(lowerMsg)]
        matched == {k \in 1..6 : nums[k] >= 0}
        first == CHOOSE a \in matched : \A b \in matched : a <= b
    IN  IF matched = {} THEN 0
        ELSE IF nums[first] > 0 /\ nums[first] <= MaxRequestedCount THEN nums[first]
        ELSE 0

\* The requested count, 0 standing for null.
getRequestedCount(message) ==
    LET lowerMsg == toLowerCase(message)
        nums == [k \in 1..6 |->
                    IF k <= 5 THEN KeywordNumber(lowerMsg, countKeywords[k])
                    ELSE NumberNoun(lowerMsg)]
        ok == {k \in 1..6 : nums[k] > 0 /\ nums[k] <= MaxRequestedCount}
    IN  IF ok = {} THEN 0
        ELSE nums[CHOOSE a \in ok : \A b \in ok : a <= b]

multipleKeywords ==
    <<"files", "all", "list", "multiple", "documents", "every", "related">>

wantsMultipleFiles(message) ==
    \/ includesAny(toLowerCase(message), multipleKeywords)
    \/ getRequestedCount(message) # 0

wantsFolders(message) ==
    includesAny(toLowerCase(message), <<"folder", "directory", "directories">>)

wantsDocumentsOnly(message) ==
    LET lowerMsg == toLowerCase(message)
    IN  \/ includesAny(lowerMsg, <<"document", "doc ", "docs">>)
        \/ endsWith(lowerMsg, "doc")

isDocOrPdf(fileName) == SeqContains(<<"doc", "docx", "pdf">>, extensionOf(fileName))

\* applyFileFilters, given what the message asks for.
applyFileFilters(files, includeFolders, docsOnly) ==
    LET noFolders == IF includeFolders THEN files
                     ELSE SelectSeq(files, LAMBDA f : ~f.isFolder)
    IN  IF docsOnly
        THEN SelectSeq(noFolders, LAMBDA f : f.isFolder \/ isDocOrPdf(f.name))
        ELSE noFolders

mediaKeywords ==
    <<"image", "images", "photo", "photos", "picture", "pictures", "video",
      "videos", "media", "png", "jpg", "jpeg", "gif", "mp4", "mov">>

isMediaRequest(message) == includesAny(toLowerCase(message), mediaKeywords)

getMediaType(message) ==
    LET lowerMsg == toLowerCase(message)
        hasImage == includesAny(lowerMsg,
                        <<"image", "images", "photo", "photos", "picture",
                          "pictures", "png", "jpg", "jpeg", "gif">>)
        hasVideo == includesAny(lowerMsg,
                        <<"video", "videos", "mp4", "mov", "clip", "clips">>)
    IN  IF hasImage /\ ~hasVideo THEN "image"
        ELSE IF hasVideo /\ ~hasImage THEN "video"
        ELSE "all"

actionPhrases ==
    <<"simplify", "layman", "simple terms", "break down", "task breakdown",
      "dev assignment", "assign to dev", "development tasks">>

questionWords ==
    <<"what", "who", "when", "where", "why", "how", "which", "is", "are", "does",
      "do", "can", "tell", "explain", "describe", "list", "show">>

\* isDocumentQuestion reads the activeDocument of the render it was created in.
isDocumentQuestion(message, activeDoc) ==
    IF activeDoc = NULL THEN FALSE
    ELSE LET lowerMsg == toLowerCase(message)
         IN  \/ includesAny(lowerMsg, actionPhrases)
             \/ \E k \in 1..Len(questionWords) :
                    \/ startsWith(lowerMsg, questionWords[k])
                    \/ includes(lowerMsg, " " \o questionWords[k] \o " ")
             \/ includes(message, "?")

\* The guards handleSend evaluates inline on the lower-cased message.
showAllPhrases == <<"show all files", "show all", "see more">>

recentPhrases ==
    <<"recent files", "my recent", "show recent", "list recent", "all files",
      "list files", "my files">>

newDocumentPhrases ==
    <<"new document", "different document", "another document", "clear document">>

pmDocumentPhrases ==
    <<"generate pm", "create pm", "pm document", "impact analysis document">>

laymanPhrases ==
    <<"simplify", "layman", "simple terms", "plain language", "non-technical",
      "easy to understand">>

taskBreakdownPhrases ==
    <<"break down", "task breakdown", "dev assignment", "assign to dev",
      "development tasks", "dev tasks">>

isSourceRequest(lowerMessage) ==
    \/ includes(lowerMessage, "source")
    \/ (includes(lowerMessage, "share") /\ ~includes(lowerMessage, "sharepoint"))

\* /\b(video|recording|meeting|call)\b/i.test(userMessage)
userWantsVideo(message) ==
    LET s == toLowerCase(message)
        ws == <<"video", "recording", "meeting", "call">>
    IN  \E k \in 1..Len(ws) : \E i \in 1..(Len(s) - Len(ws[k]) + 1) :
            /\ SubSeq(s, i, i + Len(ws[k]) - 1) = ws[k]
            /\ (i = 1 \/ ~IsWordChar(Char(s, i - 1)))
            /\ (i + Len(ws[k]) > Len(s) \/ ~IsWordChar(Char(s, i + Len(ws[k]))))

\* The pattern tried at the first character of the text only.
crNumberAtStart(text) ==
    LET s == toLowerCase(text)
        d == SkipChars(s, 3, WhiteSpace \cup {"-", "_"})
    IN  IF Len(s) >= 3 /\ SubSeq(s, 1, 2) = "cr" /\ DigitRunEnd(s, d) >= d
        THEN SubSeq(s, d, DigitRunEnd(s, d))
        ELSE ""

\* /CR[\s\-_]*\d+/i: the digits of the leftmost match, "" without a match.
crNumber(text) ==
    LET s == toLowerCase(text)
        seps == WhiteSpace \cup {"-", "_"}
        starts == {i \in 1..(Len(s) - 1) :
                     /\ SubSeq(s, i, i + 1) = "cr"
                     /\ LET d == SkipChars(s, i + 2, seps)
                        IN  DigitRunEnd(s, d) >= d}
    IN  IF starts = {} THEN ""
        ELSE LET i == CHOOSE a \in starts : \A b \in starts : a <= b
                 d == SkipChars(s, i + 2, seps)
             IN  SubSeq(s, d, DigitRunEnd(s, d))

isCRName(text) == crNumber(text) # ""

(***************************************************************************)
(* SearchTermExtractor.                                                    *)
(***************************************************************************)
\* /\b(\d{4,})\b/: the leftmost whole run of four or more digits, "" without one.
standaloneNumber(message) ==
    LET s == message
        starts == {i \in 1..Len(s) :
                     /\ IsDigit(Char(s, i))
                     /\ (i = 1 \/ ~IsWordChar(Char(s, i - 1)))
                     /\ DigitRunEnd(s, i) - i + 1 >= 4
                     /\ (DigitRunEnd(s, i) = Len(s)
                           \/ ~IsWordChar(Char(s, DigitRunEnd(s, i) + 1)))}
    IN  IF starts = {} THEN ""
        ELSE LET i == CHOOSE a \in starts : \A b \in starts : a <= b
             IN  SubSeq(s, i, DigitRunEnd(s, i))

stopWords ==
    <<"find", "search", "show", "get", "list", "check", "want", "need", "look",
      "related", "about", "from", "my", "all", "the", "in", "for", "to", "a",
      "an", "of", "every", "multiple", "share", "give", "me", "please", "can",
      "you", "could", "would", "should", "this", "that", "these", "those",
      "read", "summarize", "summary", "content", "what", "does", "tell", "explain",
      "is", "are", "was", "were", "has", "have", "had", "do", "did",
      "file", "files", "document", "documents", "sheet", "sheets",
      "recording", "recordings",
      "image", "images", "photo", "photos", "picture", "pictures",
      "video", "videos", "media", "clip", "clips",
      "top", "first", "last",
      "add", "respective", "fields", "tags">>

punctuationChars == {"-", "_", ".", ",", ";", ":"}

isMeaningfulWord(w) ==
    /\ ~SeqContains(stopWords, toLowerCase(w))
    /\ Len(w) > 2
    /\ ~(\A k \in 1..Len(w) : Char(w, k) \in punctuationChars)

MaxFallbackWords == 4

extractSearchTerms(message) ==
    LET lowerMsg == toLowerCase(message)
        cr == crNumber(message)
        num == standaloneNumber(message)
        hasArogya == includes(lowerMsg, "arogya")
        hasSanjeevani == includes(lowerMsg, "sanjeevani")
        productTerms ==
            (IF num # "" THEN <<num>> ELSE <<>>)
            \o (IF hasArogya /\ hasSanjeevani THEN <<"Arogya Sanjeevani">>
                ELSE IF hasArogya THEN <<"Arogya">> ELSE <<>>)
            \o (IF includes(lowerMsg, "top up") \/ includes(lowerMsg, "topup")
                THEN <<"Top up", "Topup">> ELSE <<>>)
            \o (IF hasSanjeevani /\ ~hasArogya THEN <<"Sanjeevani">> ELSE <<>>)
            \o (IF includes(lowerMsg, "cross sell") \/ includes(lowerMsg, "crosssell")
                THEN <<"Cross Sell">> ELSE <<>>)
            \o (IF includes(lowerMsg, "insuremo") THEN <<"Insuremo">> ELSE <<>>)
        words == SelectSeq(splitWords(message), isMeaningfulWord)
    IN  IF cr # ""
        THEN <<"CR" \o cr, "CR_" \o cr, "CR " \o cr, "CR-" \o cr, cr>>
        ELSE IF Len(productTerms) > 0 THEN productTerms
        ELSE IF Len(words) > 0
             THEN <<joinWith(slice(words, MaxFallbackWords), " ")>>
        ELSE <<>>

(***************************************************************************)
(* KnowledgeBase: the static table and its matcher.  A follow-up answer    *)
(* is named by its key path; the response texts themselves are constants   *)
(* of the table and are not reproduced.                                    *)
(***************************************************************************)
knowledgeBase ==
    <<[topic |-> "project_change",
       keywords |-> <<"approval", "project", "change", "process">>,
       followUp |-> <<[key |-> "pmo.scope", sourceFile |-> "Project_Change_Process"],
                      [key |-> "pmo.timeline", sourceFile |-> "Project_Change_Process"],
                      [key |-> "pmo.cost", sourceFile |-> "Budget_Change_Policy"],
                      [key |-> "finance.scope", sourceFile |-> "Finance_Change_Policy"]>>],
      [topic |-> "leave_policy",
       keywords |-> <<"leave", "policy", "vacation", "pto">>,
       followUp |-> <<[key |-> "annual", sourceFile |-> "Leave_Policy"],
                      [key |-> "sick", sourceFile |-> "Leave_Policy"],
                      [key |-> "application", sourceFile |-> "Leave_Policy"]>>],
      [topic |-> "expense",
       keywords |-> <<"expense", "reimbursement", "claim">>,
       followUp |-> <<[key |-> "travel", sourceFile |-> "Travel_Expense_Policy"],
                      [key |-> "supplies", sourceFile |-> "Procurement_Policy"],
                      [key |-> "entertainment", sourceFile |-> "Entertainment_Policy"]>>],
      [topic |-> "onboarding",
       keywords |-> <<"onboarding", "new", "employee", "hire", "joining">>,
       followUp |-> <<[key |-> "it", sourceFile |-> "IT_Onboarding_Checklist"],
                      [key |-> "hr", sourceFile |-> "HR_Onboarding_Guide"],
                      [key |-> "training", sourceFile |-> "Training_Schedule"]>>]>>

\* The matcher with one keyword being enough.
findKnowledgeMatchOnOneKeyword(text) ==
    LET lowerText == toLowerCase(text)
        hits == {n \in 1..Len(knowledgeBase) :
                    \E k \in 1..Len(knowledgeBase[n].keywords) :
                        includes(lowerText, knowledgeBase[n].keywords[k])}
    IN  IF hits = {} THEN 0 ELSE CHOOSE a \in hits : \A b \in hits : a <= b

KeywordThreshold == 2

\* Index of the matching entry in knowledgeBase, 0 standing for null.
findKnowledgeMatch(text) ==
    LET lowerText == toLowerCase(text)
        matchCount(e) == Cardinality({k \in 1..Len(e.keywords) :
                                         includes(lowerText, e.keywords[k])})
        hits == {n \in 1..Len(knowledgeBase) :
                    matchCount(knowledgeBase[n]) >= KeywordThreshold}
    IN  IF hits = {} THEN 0 ELSE CHOOSE a \in hits : \A b \in hits : a <= b

departments == <<"pmo", "finance", "hr", "it", "operations">>
changeTypes == <<"scope", "timeline", "cost", "budget">>

\* Array.prototype.find over a keyword list: the first keyword the text contains, "" for undefined.
firstIncluded(lowerText, kws) ==
    LET hits == {k \in 1..Len(kws) : includes(lowerText, kws[k])}
    IN  IF hits = {} THEN "" ELSE kws[CHOOSE a \in hits : \A b \in hits : a <= b]

followUpEntry(entry, key) ==
    LET hits == {k \in 1..Len(entry.followUp) : entry.followUp[k].key = key}
    IN  IF hits = {} THEN NULL ELSE entry.followUp[CHOOSE k \in hits : TRUE]

\* The follow-up answer without the default department.
processFollowUpOwnEntryOnly(text, topicIndex) ==
    LET lowerText == toLowerCase(text)
        entry == knowledgeBase[topicIndex]
    IN  IF entry.topic = "project_change"
        THEN LET dept == firstIncluded(lowerText, departments)
                 changeType == firstIncluded(lowerText, changeTypes)
             IN  IF dept # "" /\ changeType # ""
                 THEN followUpEntry(entry, dept \o "." \o changeType)
                 ELSE NULL
        ELSE LET hits == {k \in 1..Len(entry.followUp) :
                             includes(lowerText, entry.followUp[k].key)}
             IN  IF hits = {} THEN NULL
                 ELSE entry.followUp[CHOOSE a \in hits : \A b \in hits : a <= b]

\* The follow-up answer [key, sourceFile] for the open topic, NULL when the text resolves nothing.
processFollowUp(text, topicIndex) ==
    LET lowerText == toLowerCase(text)
        entry == knowledgeBase[topicIndex]
    IN  IF entry.topic = "project_change"
        THEN LET dept == firstIncluded(lowerText, departments)
                 changeType == firstIncluded(lowerText, changeTypes)
                 own == followUpEntry(entry, dept \o "." \o changeType)
             IN  IF dept # "" /\ changeType # ""
                 THEN IF own # NULL THEN own
                      ELSE followUpEntry(entry, "pmo." \o changeType)
                 ELSE NULL
        ELSE LET hits == {k \in 1..Len(entry.followUp) :
                             includes(lowerText, entry.followUp[k].key)}
             IN  IF hits = {} THEN NULL
                 ELSE entry.followUp[CHOOSE a \in hits : \A b \in hits : a <= b]

(***************************************************************************)
(* FileRepository and SummarizerAndAnswerer: the external collaborators.   *)
(* What the backend holds and how a call ends is chosen afresh for every   *)
(* handler run (the record env).                                           *)
(***************************************************************************)
FileRecord(id, name, folder) ==
    [id |-> id, name |-> name, isFolder |-> folder, webUrl |-> "web:" \o id,
     isVideo |-> FALSE]

crDoc == FileRecord("f1", "CR20049 Impact.docx", FALSE)
crVideo == FileRecord("f2", "CR20049 video.mp4", FALSE)
arogyaPdf == FileRecord("f3", "Arogya Sanjeevani.pdf", FALSE)

crPlan == FileRecord("f4", "CR-20049 Plan.docx", FALSE)
sopDoc == FileRecord("f5", "Deployment SOP.docx", FALSE)
\* The drive item of a file uploaded from the chat, once the search index holds it.
uploadedPlan == FileRecord("u:CR20050 Plan.docx", "CR20050 Plan.docx", FALSE)

\* A backend: its files in ranking order, the ids the search engine also returns for
\* every query (a match in the content), and the ids it returns for one query only
\* (queryHits, pairs of the lower-cased query and the id).
EmptyStore == [files |-> <<>>, contentHits |-> {}, queryHits |-> {}]
NameStore == [files |-> <<crVideo, crDoc, arogyaPdf>>, contentHits |-> {}, queryHits |-> {}]
ContentStore ==
    [files |-> <<arogyaPdf, crVideo, crDoc>>, contentHits |-> {"f1", "f2", "f3"},
     queryHits |-> {}]
\* The first CR spelling is found in a file's content, a later one in a file's name.
LaterMatchStore ==
    [files |-> <<arogyaPdf, crPlan>>, contentHits |-> {},
     queryHits |-> {<<"cr20049", "f3">>}]
\* Two CR spellings are found in the content of different files, none in a name.
FallbackStore ==
    [files |-> <<arogyaPdf, sopDoc>>, contentHits |-> {},
     queryHits |-> {<<"cr_20049", "f5">>, <<"cr-20049", "f3">>}]
\* The only file is a recording.
VideoStore == [files |-> <<crVideo>>, contentHits |-> {}, queryHits |-> {}]
\* The search index already holds an uploaded file.
IndexedStore == [files |-> <<crDoc, uploadedPlan>>, contentHits |-> {}, queryHits |-> {}]

Stores ==
    {EmptyStore, NameStore, ContentStore, LaterMatchStore, FallbackStore, VideoStore,
     IndexedStore}

searchFiles(store, searchQuery) ==
    SelectSeq(store.files,
              LAMBDA f : \/ includes(toLowerCase(f.name), toLowerCase(searchQuery))
                         \/ f.id \in store.contentHits
                         \/ <<toLowerCase(searchQuery), f.id>> \in store.queryHits)

getRecentFiles(store) == store.files

imageExtensions == <<"png", "jpg", "jpeg", "gif", "bmp", "webp", "svg">>
mediaVideoExtensions == <<"mp4", "mov", "avi", "wmv", "mkv", "webm">>

MapSeq(seq, Op(_)) == [k \in 1..Len(seq) |-> Op(seq[k])]

searchMedia(store, searchQuery, mediaType) ==
    LET isImage(f) == SeqContains(imageExtensions, extensionOf(f.name))
        isVideo(f) == SeqContains(mediaVideoExtensions, extensionOf(f.name))
        wanted(f) == /\ ~f.isFolder
                     /\ CASE mediaType = "image" -> isImage(f)
                          [] mediaType = "video" -> isVideo(f)
                          [] OTHER -> isImage(f) \/ isVideo(f)
        tag(f) == [f EXCEPT !.isVideo = isVideo(f)]
    IN  MapSeq(SelectSeq(searchFiles(store, searchQuery), wanted), tag)

ContentThreshold == 50

\* getDocumentContent / getVideoTranscript: nothing, a text too short to use, a usable text.
ReadOutcomes == {"none", "short", "long"}

contentOf(doc, outcome) ==
    [of |-> doc.id,
     length |-> IF outcome = "long" THEN ContentThreshold + 1 ELSE ContentThreshold]

\* The value readDocument hands back: NULL, or the content with the item's own web link.
getDocumentContent(doc, outcome) ==
    IF outcome = "none" THEN NULL
    ELSE [content |-> contentOf(doc, outcome), webUrl |-> "item:" \o doc.id]

\* getVideoTranscript never throws and never returns null: without a transcript file
\* hasTranscript is false; with one the content is its text, which stays empty when the
\* file cannot be downloaded ("short") and is a text otherwise ("long").
getVideoTranscript(doc, outcome) ==
    [hasTranscript |-> outcome # "none",
     content |-> [of |-> doc.id,
                  length |-> IF outcome = "long" THEN ContentThreshold + 1 ELSE 0]]

\* llmService.answerQuestion never throws: a failure comes back as this text.
AnswerErrorText == "I encountered an error. Please try again."
AnswerText == "The change affects the billing module."

LaymanSuggestion == "Simplify this CR in simple words."
TaskSuggestion == "Break down tasks for dev assignment"
UploadLaymanSuggestion == "Simplify this CR in layman terms"

\* What the model returns when asked to suggest questions (one question per line).
QuestionLists ==
    {<<"What does this CR change?", "2">>, <<"Who approved it?">>}

AnswerOutcomes == {"text", "error", "empty"}

answerQuestion(outcome) ==
    CASE outcome = "text" -> AnswerText
      [] outcome = "error" -> AnswerErrorText
      [] OTHER -> ""

\* suggestedQs.split('\n').map(trim).filter(non-empty).slice(0, 3)
MaxSuggested == 3

suggestedQuestions(env) ==
    CASE env.answer = "text" -> slice(env.questions, MaxSuggested)
      [] env.answer = "error" -> <<AnswerErrorText>>
      [] OTHER -> <<>>

Envs ==
    [auth : BOOLEAN, store : Stores, read : ReadOutcomes,
     answer : AnswerOutcomes, questions : QuestionLists]

(***************************************************************************)
(* The message texts of the model and what the classifier, the extractor   *)
(* and the matcher say about each.  The answers depend on the text alone,  *)
(* so they are computed once per text and looked up by the handlers.       *)
(***************************************************************************)
\* The texts a user types into the input box.
Inputs ==
    {"  ", "show all files", "my recent files", "1", "2", "20049", "new document",
     "Read CR20049 document", "generate pm", "Who approved it?", "show videos",
     "source", "Show Arogya Sanjeevani files", "project approval", "pmo scope", "hi",
     "top 15 documents", "get 2 CR20050 files", "Find Arogya Sanjeevani", "see more"}

\* The question cards under the greeting.
suggestedQuestionCards ==
    {"Tell me about Arogya Sanjeevani Product", "Summarize Production Deployment SOP",
     "Read CR20049 document", "Summarize CR20049 video"}

mediaMultipleKeywords ==
    <<"images", "videos", "photos", "pictures", "all", "list", "every">>

\* Everything handleSend derives from the text of a message alone.
analyse(message) ==
    LET lowerMessage == toLowerCase(message)
    IN  [lowerMessage |-> lowerMessage,
         showAll |-> includesAny(lowerMessage, showAllPhrases),
         recentFiles |-> includesAny(lowerMessage, recentPhrases),
         isNumberSelection |-> isNumberSelection(message),
         number |-> parseInt(trim(message)),
         newDocument |-> includesAny(lowerMessage, newDocumentPhrases),
         isReadSummaryRequest |-> isReadSummaryRequest(message),
         pmDocument |-> includesAny(lowerMessage, pmDocumentPhrases),
         isDocumentQuestion |-> isDocumentQuestion(message, [name |-> "any"]),
         isLaymanRequest |-> includesAny(lowerMessage, laymanPhrases),
         isTaskBreakdown |-> includesAny(lowerMessage, taskBreakdownPhrases),
         isMediaRequest |-> isMediaRequest(message),
         mediaType |-> getMediaType(message),
         mediaShowMultiple |-> includesAny(lowerMessage, mediaMultipleKeywords),
         isSourceRequest |-> isSourceRequest(lowerMessage),
         isFileSearchRequest |-> isFileSearchRequest(message),
         searchTerms |-> extractSearchTerms(message),
         wantsVideo |-> userWantsVideo(message),
         isCR |-> isCRName(message),
         requestedCount |-> getRequestedCount(message),
         wantsMultipleFiles |-> wantsMultipleFiles(message),
         wantsFolders |-> wantsFolders(message),
         wantsDocumentsOnly |-> wantsDocumentsOnly(message),
         knowledgeMatch |-> findKnowledgeMatch(message),
         followUp |-> [n \in 1..Len(knowledgeBase) |-> processFollowUp(message, n)]]

\* The texts that can reach handleSend: typed, clicked, or suggested by the model.
Texts ==
    {trim(input) : input \in Inputs} \cup suggestedQuestionCards
    \cup UNION {{q[k] : k \in 1..Len(q)} : q \in QuestionLists}
    \cup {AnswerErrorText, LaymanSuggestion, TaskSuggestion, UploadLaymanSuggestion}

analysisOf == [message \in Texts |-> analyse(message)]

intent(message) == analysisOf[message]

(***************************************************************************)
(* ConversationEngine: the session state and handleSend.                   *)
(*                                                                         *)
(* handleSend is written as an operator from the session S (a record of    *)
(* the component's state and refs), the values c captured by the render    *)
(* that created the handler, the message and the collaborators' outcomes   *)
(* env, to the session after the run.  S.branches and S.calls record the   *)
(* routing branch of every invocation of the run and the collaborator      *)
(* operations it called.                                                   *)
(***************************************************************************)
RECURSIVE Str(_)
Str(n) == IF n < 10 THEN Char(Digits, n + 1)
          ELSE Str(n \div 10) \o Char(Digits, (n % 10) + 1)

UserMessage(text) == [type |-> "user", text |-> text, sources |-> <<>>]
BotMessage(text, sources) == [type |-> "bot", text |-> text, sources |-> sources]

\* The invalid-selection text with a zero-based range.
InvalidSelectionZeroBased(n) ==
    "Invalid selection. Please enter a number between 0 and " \o Str(n - 1) \o "."

InvalidSelectionText(n) ==
    "Invalid selection. Please enter a number between 1 and " \o Str(n) \o "."

NoAnswerText ==
    "I couldn't find an answer to that question in the document. Try rephrasing or ask a different question."

DefaultRecentCount == 10
MultipleCount == 5

Reverse(seq) == [k \in 1..Len(seq) |-> seq[Len(seq) + 1 - k]]

\* Array.prototype.some / find over a sequence of records
nameIncludes(f, term) == includes(toLowerCase(f.name), toLowerCase(term))

\* searchDocuments: the backend's results with the matching recent uploads put in front.
searchDocuments(c, env, searchTerm) ==
    IF ~env.auth THEN <<>>
    ELSE LET results == searchFiles(env.store, searchTerm)
             matchingUploads ==
                 SelectSeq(c.recentUploads,
                           LAMBDA u : /\ nameIncludes(u, searchTerm)
                                      /\ ~\E k \in 1..Len(results) : results[k].id = u.id)
         IN  Reverse(MapSeq(matchingUploads,
                            LAMBDA u : FileRecord(u.id, u.name, FALSE))) \o results

searchDocumentsCalls(c, env, searchTerm) ==
    IF ~env.auth THEN {}
    ELSE {"searchFiles"} \cup
         (IF \E k \in 1..Len(c.recentUploads) :
                 /\ nameIncludes(c.recentUploads[k], searchTerm)
                 /\ ~\E j \in 1..Len(searchFiles(env.store, searchTerm)) :
                        searchFiles(env.store, searchTerm)[j].id = c.recentUploads[k].id
          THEN {"getFileById"} ELSE {})

\* findSourceDocument: the first search result, NULL without one.
findSourceDocument(env, searchTerm) ==
    IF ~env.auth THEN NULL
    ELSE LET results == searchFiles(env.store, searchTerm)
         IN  IF Len(results) > 0 THEN results[1] ELSE NULL

readDocument(env, doc) ==
    IF ~env.auth THEN NULL ELSE getDocumentContent(doc, env.read)

readVideoTranscript(env, doc) ==
    IF ~env.auth THEN NULL ELSE getVideoTranscript(doc, env.read)

\* generateSummary calls the summarizer only with AI enabled and always yields a text
\* for the non-blank contents the collaborators return here.
generateSummaryCalls(c) == IF c.aiEnabled THEN {"summarize"} ELSE {}

\* A content test that takes any content that was returned.
hasAnyContent(docContent) == docContent # NULL

hasUsableContent(docContent) ==
    docContent # NULL /\ docContent.content.length > ContentThreshold

\* The guard chain with the recent-files guard tested before the show-all guard.
routeRecentFirst(S, c, m) ==
    LET qIdx == m.number - 1
    IN  IF m.recentFiles THEN "recentFiles"
        ELSE IF m.showAll /\ Len(S.lastSearchResults) > 1 THEN "showAll"
        ELSE IF /\ m.isNumberSelection
                /\ Len(S.lastSuggestedQuestions) > 0
                /\ qIdx >= 0 /\ qIdx < Len(S.lastSuggestedQuestions)
        THEN "suggestedQuestion"
        ELSE IF m.isNumberSelection /\ Len(S.lastFileList) > 0 THEN "fileSelection"
        ELSE IF m.newDocument THEN "newDocument"
        ELSE IF m.isReadSummaryRequest THEN "readSummarize"
        ELSE IF m.pmDocument THEN "pmDocument"
        ELSE IF c.aiEnabled /\ c.activeDocument # NULL /\ m.isDocumentQuestion
        THEN "documentQA"
        ELSE IF m.isMediaRequest THEN "media"
        ELSE IF m.isSourceRequest THEN "source"
        ELSE IF m.isFileSearchRequest THEN "fileSearch"
        ELSE IF c.currentContext # NULL THEN "followUp"
        ELSE "default"

\* The order of the guard chain of handleSend; m is what the message text says (intent).
route(S, c, m) ==
    LET qIdx == m.number - 1
    IN  IF m.showAll /\ Len(S.lastSearchResults) > 1 THEN "showAll"
        ELSE IF m.recentFiles THEN "recentFiles"
        ELSE IF /\ m.isNumberSelection
                /\ Len(S.lastSuggestedQuestions) > 0
                /\ qIdx >= 0 /\ qIdx < Len(S.lastSuggestedQuestions)
        THEN "suggestedQuestion"
        ELSE IF m.isNumberSelection /\ Len(S.lastFileList) > 0 THEN "fileSelection"
        ELSE IF m.newDocument THEN "newDocument"
        ELSE IF m.isReadSummaryRequest THEN "readSummarize"
        ELSE IF m.pmDocument THEN "pmDocument"
        ELSE IF c.aiEnabled /\ c.activeDocument # NULL /\ m.isDocumentQuestion
        THEN "documentQA"
        ELSE IF m.isMediaRequest THEN "media"
        ELSE IF m.isSourceRequest THEN "source"
        ELSE IF m.isFileSearchRequest THEN "fileSearch"
        ELSE IF c.currentContext # NULL THEN "followUp"
        ELSE "default"

Reply(S, text, sources) == [S |-> S, text |-> text, sources |-> sources, reply |-> TRUE]

\* A show-all that publishes the list without storing it for numbered selection.
showAllWithoutList(S) ==
    Reply([S EXCEPT !.sourceDocuments = S.lastSearchResults],
          "All Search Results (" \o Str(Len(S.lastSearchResults)) \o ")",
          S.lastSearchResults)

\* A show-all that asks the backend for the files again.
showAllSearchingAgain(S) ==
    LET allResults == S.lastSearchResults
    IN  Reply([S EXCEPT !.sourceDocuments = allResults, !.lastFileList = allResults,
                        !.calls = @ \cup {"searchFiles"}],
              "All Search Results (" \o Str(Len(allResults)) \o ")", allResults)

showAllBranch(S) ==
    LET allResults == S.lastSearchResults
    IN  Reply([S EXCEPT !.sourceDocuments = allResults, !.lastFileList = allResults],
              "All Search Results (" \o Str(Len(allResults)) \o ")", allResults)

recentFilesBranch(S, env, m) ==
    IF ~env.auth
    THEN Reply(S, "Couldn't fetch recent files. Please make sure you're signed in.", <<>>)
    ELSE LET recentFiles == getRecentFiles(env.store)
             filteredFiles == applyFileFilters(recentFiles, m.wantsFolders,
                                               m.wantsDocumentsOnly)
             requestedCount == m.requestedCount
             showCount == IF requestedCount # 0 THEN requestedCount ELSE DefaultRecentCount
             displayFiles == slice(filteredFiles, showCount)
             S1 == [S EXCEPT !.calls = @ \cup {"getRecentFiles"}]
         IN  IF Len(recentFiles) > 0
             THEN Reply([S1 EXCEPT !.sourceDocuments = displayFiles,
                                   !.lastFileList = displayFiles],
                        "Your Recent Files (" \o Str(Len(filteredFiles)) \o ")",
                        displayFiles)
             ELSE Reply(S1, "No recent files found. Try uploading a file to OneDrive first.",
                        <<>>)

\* The video half of a selection or a read: transcript, active document, summary.
\* A selected video that is read as a document.
videoReadAsDocument(S, c, env, doc) ==
    Reply([S EXCEPT !.sourceDocuments = <<doc>>,
                    !.calls = @ \cup (IF env.auth THEN {"getDocumentContent"} ELSE {})],
          "Could not extract content of " \o doc.name, <<doc>>)

\* A video flow that forgets the active document when there is no transcript.
videoFlowClearingActive(S, c, env, doc) ==
    LET transcriptData == readVideoTranscript(env, doc)
        newSourceDocs == <<[doc EXCEPT !.isVideo = TRUE]>>
        S1 == [S EXCEPT !.sourceDocuments = newSourceDocs,
                        !.calls = @ \cup (IF env.auth THEN {"getVideoTranscript"} ELSE {})]
    IN  IF /\ transcriptData # NULL
           /\ transcriptData.hasTranscript
           /\ transcriptData.content.length > 0
        THEN Reply([S1 EXCEPT !.activeDocument =
                                  [id |-> doc.id, name |-> doc.name,
                                   content |-> transcriptData.content, isVideo |-> TRUE],
                              !.calls = @ \cup generateSummaryCalls(c)],
                   "Transcript summary of " \o doc.name, newSourceDocs)
        ELSE Reply([S1 EXCEPT !.activeDocument = NULL],
                   "No transcript available for " \o doc.name, newSourceDocs)

videoFlow(S, c, env, doc) ==
    LET transcriptData == readVideoTranscript(env, doc)
        newSourceDocs == <<[doc EXCEPT !.isVideo = TRUE]>>
        S1 == [S EXCEPT !.sourceDocuments = newSourceDocs,
                        !.calls = @ \cup (IF env.auth THEN {"getVideoTranscript"} ELSE {})]
    IN  IF /\ transcriptData # NULL
           /\ transcriptData.hasTranscript
           /\ transcriptData.content.length > 0
        THEN Reply([S1 EXCEPT !.activeDocument =
                                  [id |-> doc.id, name |-> doc.name,
                                   content |-> transcriptData.content, isVideo |-> TRUE],
                              !.calls = @ \cup generateSummaryCalls(c)],
                   "Transcript summary of " \o doc.name, newSourceDocs)
        ELSE Reply(S1, "No transcript available for " \o doc.name, newSourceDocs)

fileSelectionBranch(S, c, env, m) ==
    LET fileList == S.lastFileList
        selectedIdx == m.number - 1
    IN  IF selectedIdx >= 0 /\ selectedIdx < Len(fileList)
        THEN LET doc == fileList[selectedIdx + 1]
                 docContent == readDocument(env, doc)
                 newSourceDocs ==
                     <<[doc EXCEPT !.webUrl = IF docContent # NULL THEN docContent.webUrl
                                              ELSE doc.webUrl]>>
                 S1 == [S EXCEPT !.sourceDocuments = newSourceDocs,
                                 !.calls = @ \cup (IF env.auth THEN {"getDocumentContent"}
                                                   ELSE {})]
             IN  IF isVideoFile(doc.name) THEN videoFlow(S, c, env, doc)
                 ELSE IF hasUsableContent(docContent)
                 THEN Reply([S1 EXCEPT !.activeDocument =
                                           [id |-> doc.id, name |-> doc.name,
                                            content |-> docContent.content,
                                            isVideo |-> FALSE],
                                       !.calls = @ \cup generateSummaryCalls(c)
                                                   \cup (IF isCRName(doc.name) /\ c.aiEnabled
                                                         THEN {"answer"} ELSE {})],
                            "Summary of #" \o Str(selectedIdx + 1) \o ": " \o doc.name,
                            newSourceDocs)
                 ELSE Reply(S1, "Could not extract content of #" \o Str(selectedIdx + 1)
                                \o ": " \o doc.name, newSourceDocs)
        ELSE [S |-> S, text |-> InvalidSelectionText(Len(fileList)), sources |-> <<>>,
              reply |-> TRUE]

\* A new-document reply that leaves the active document in place.
newDocumentKeepingActive(S) ==
    Reply(S, "Document cleared. What document would you like me to find?", <<>>)

newDocumentBranch(S) ==
    Reply([S EXCEPT !.activeDocument = NULL],
          "Document cleared. What document would you like me to find?", <<>>)

readableExts ==
    <<"docx", "doc", "pdf", "txt", "md", "csv", "xlsx", "xls", "pptx", "ppt">>

isReadable(f) == SeqContains(readableExts, extensionOf(f.name))

\* A term scan that searches every term and keeps the results of the last one that has
\* any.
RECURSIVE scanEveryTerm(_, _, _, _, _, _)
scanEveryTerm(c, env, terms, wantsVideo, fb, searched) ==
    IF Len(terms) = 0
    THEN [results |-> fb.results, usedSearchTerm |-> fb.term, searched |-> searched]
    ELSE LET term == Head(terms)
             allResults == searchDocuments(c, env, term)
             readable == SelectSeq(allResults, isReadable)
             filtered == IF ~wantsVideo /\ Len(readable) > 0 THEN readable
                         ELSE allResults
         IN  scanEveryTerm(c, env, Tail(terms), wantsVideo,
                           IF Len(filtered) > 0
                           THEN [results |-> filtered, term |-> term] ELSE fb,
                           Append(searched, term))

\* A term scan that keeps every result, readable or not.
RECURSIVE scanUnfiltered(_, _, _, _, _, _)
scanUnfiltered(c, env, terms, wantsVideo, fb, searched) ==
    IF Len(terms) = 0
    THEN [results |-> fb.results, usedSearchTerm |-> fb.term, searched |-> searched]
    ELSE LET term == Head(terms)
             allResults == searchDocuments(c, env, term)
             hasNameMatch == \E k \in 1..Len(allResults) : nameIncludes(allResults[k], term)
         IN  IF Len(allResults) = 0
             THEN scanUnfiltered(c, env, Tail(terms), wantsVideo, fb, Append(searched, term))
             ELSE IF hasNameMatch
             THEN [results |-> allResults, usedSearchTerm |-> term,
                   searched |-> Append(searched, term)]
             ELSE scanUnfiltered(c, env, Tail(terms), wantsVideo,
                                 IF Len(fb.results) = 0
                                 THEN [results |-> allResults, term |-> term] ELSE fb,
                                 Append(searched, term))

\* The term scan of the read/summarize pipeline: one search per term, in order, until a
\* term has a file-name match.  fb is the fallback remembered so far, searched the terms
\* queried so far.
RECURSIVE scanTerms(_, _, _, _, _, _)
scanTerms(c, env, terms, wantsVideo, fb, searched) ==
    IF Len(terms) = 0
    THEN [results |-> fb.results, usedSearchTerm |-> fb.term, searched |-> searched]
    ELSE LET term == Head(terms)
             allResults == searchDocuments(c, env, term)
             readable == SelectSeq(allResults, isReadable)
             filtered == IF ~wantsVideo /\ Len(readable) > 0 THEN readable
                         ELSE allResults
             hasNameMatch == \E k \in 1..Len(filtered) : nameIncludes(filtered[k], term)
         IN  IF term = "" THEN scanTerms(c, env, Tail(terms), wantsVideo, fb, searched)
             ELSE IF Len(allResults) = 0
             THEN scanTerms(c, env, Tail(terms), wantsVideo, fb, Append(searched, term))
             ELSE IF hasNameMatch
             THEN [results |-> filtered, usedSearchTerm |-> term,
                   searched |-> Append(searched, term)]
             ELSE scanTerms(c, env, Tail(terms), wantsVideo,
                            IF Len(fb.results) = 0 /\ Len(filtered) > 0
                            THEN [results |-> filtered, term |-> term] ELSE fb,
                            Append(searched, term))

\* results.sort(name match first), then the first video in front when video was asked for.
prioritize(results, usedSearchTerm, wantsVideo) ==
    LET sorted == SelectSeq(results, LAMBDA r : nameIncludes(r, usedSearchTerm))
                  \o SelectSeq(results, LAMBDA r : ~nameIncludes(r, usedSearchTerm))
        videos == {k \in 1..Len(sorted) : isVideoFile(sorted[k].name)}
    IN  IF wantsVideo /\ videos # {}
        THEN LET videoResult == sorted[CHOOSE a \in videos : \A b \in videos : a <= b]
             IN  <<videoResult>> \o SelectSeq(sorted, LAMBDA r : r.id # videoResult.id)
        ELSE sorted

UnionOver(seq, Op(_)) == UNION {Op(seq[k]) : k \in 1..Len(seq)}

\* The document found: read it, remember it for questions, suggest questions.
readFirstResult(S0, c, env, m, results) ==
    LET doc == results[1]
        remember(T) == IF Len(results) > 1 THEN [T EXCEPT !.lastSearchResults = results]
                       ELSE T
        docContent == readDocument(env, doc)
        usable == hasUsableContent(docContent)
        isCRDoc == isCRName(doc.name) \/ m.isCR
        numberedQuestions ==
            IF c.aiEnabled /\ usable
            THEN suggestedQuestions(env)
                 \o (IF isCRDoc THEN <<LaymanSuggestion, TaskSuggestion>> ELSE <<>>)
            ELSE <<>>
        newSourceDocs == <<[doc EXCEPT !.webUrl = docContent.webUrl]>>
        S1 == [S0 EXCEPT !.sourceDocuments = newSourceDocs,
                         !.calls = @ \cup {"getDocumentContent"}]
        S2 == IF usable
              THEN [S1 EXCEPT !.activeDocument =
                                  [id |-> doc.id, name |-> doc.name,
                                   content |-> docContent.content, isVideo |-> FALSE],
                              !.calls = @ \cup generateSummaryCalls(c)
                                          \cup (IF c.aiEnabled THEN {"answer"} ELSE {})]
              ELSE S1
        S3 == IF Len(numberedQuestions) > 0
              THEN [S2 EXCEPT !.lastSuggestedQuestions = numberedQuestions,
                              !.lastFileList = <<>>]
              ELSE S2
    IN  IF isVideoFile(doc.name)
        THEN [videoFlow(S0, c, env, doc) EXCEPT !.S = remember(@)]
        ELSE IF docContent # NULL
        THEN Reply(remember(S3),
                   (IF usable THEN "Summary of " ELSE "Details of ") \o doc.name,
                   newSourceDocs)
        ELSE Reply([S0 EXCEPT !.sourceDocuments = <<doc>>],
                   "I found the document but couldn't read its content: "
                   \o doc.name, <<doc>>)

\* The prioritized results of the term scan: none, or the first one is read.
readResults(S0, c, env, m, results) ==
    [(IF Len(results) = 0
      THEN Reply(S0, "I couldn't find a document matching "
                     \o joinWith(m.searchTerms, ", "), <<>>)
      ELSE readFirstResult(S0, c, env, m, results))
     EXCEPT !.text = IF Len(m.searchTerms) = 0
                     THEN "Please specify which document you want me to read."
                     ELSE @,
            !.S = [@ EXCEPT !.currentContext = NULL, !.found = results]]

readScanned(S, c, env, m, scan) ==
    readResults([S EXCEPT !.calls = @ \cup UnionOver(scan.searched,
                                         LAMBDA t : searchDocumentsCalls(c, env, t)),
                          !.searched = scan.searched],
                c, env, m, prioritize(scan.results, scan.usedSearchTerm, m.wantsVideo))

readSummarizeBranch(S, c, env, m) ==
    readScanned(S, c, env, m,
                scanTerms(c, env, m.searchTerms, m.wantsVideo,
                          [results |-> <<>>, term |-> ""], <<>>))

\* handleGeneratePMDoc with an active document, up to its await: the notice is appended
\* and the typing indicator goes on.
beginGeneratePMDoc(S) ==
    [S EXCEPT !.messages =
                  Append(@, BotMessage("Extracting details from the document for PM Impact Analysis form...", <<>>)),
              !.isTyping = TRUE]

\* The end of handleGeneratePMDoc without its setIsTyping(false).
finishGeneratePMDocTypingOn(S, c, env) ==
    [S EXCEPT !.calls = @ \cup {"answer"},
              !.pmDocFormData = IF c.aiEnabled /\ env.answer = "text" THEN "prefilled"
                                  ELSE "blank",
              !.showPMDocForm = TRUE]

\* handleGeneratePMDoc from the answer of the model to its return: the form opens,
\* prefilled when the answer could be used, and the typing indicator goes off.
finishGeneratePMDoc(S, c, env) ==
    [S EXCEPT !.calls = @ \cup {"answer"},
              !.pmDocFormData = IF c.aiEnabled /\ env.answer = "text" THEN "prefilled"
                                  ELSE "blank",
              !.showPMDocForm = TRUE,
              !.isTyping = FALSE]

\* handleGeneratePMDoc, started by the PM-document guard and not awaited by it.
handleGeneratePMDoc(S, c, env) ==
    IF c.activeDocument # NULL
    THEN finishGeneratePMDoc(beginGeneratePMDoc(S), c, env)
    ELSE [S EXCEPT !.pmDocFormData = "blank", !.showPMDocForm = TRUE]

pmDocumentBranch(S, c, env) ==
    [S |-> handleGeneratePMDoc([S EXCEPT !.isTyping = FALSE], c, env),
     text |-> "", sources |-> <<>>, reply |-> FALSE]

\* Array.prototype.slice(-n)
lastOf(seq, n) == SubSeq(seq, IF Len(seq) > n THEN Len(seq) - n + 1 ELSE 1, Len(seq))

QAHistoryWindow == 6
ChatHistoryWindow == 8

\* Document Q&A whose failed answer call escapes handleSend: no reply is appended and
\* the typing indicator stays on.
documentQAUncaught(S, c, env, userMessage, m) ==
    IF env.answer = "error"
    THEN [S |-> [S EXCEPT !.calls = @ \cup {"answer"}],
          text |-> "", sources |-> <<>>, reply |-> FALSE]
    ELSE Reply([S EXCEPT !.calls = @ \cup {"answer"}], NoAnswerText, <<>>)

\* A document Q&A that keeps the history window of the chat branch.
documentQAWithChatWindow(S, c, env, userMessage, m) ==
    LET isLaymanRequest == m.isLaymanRequest
        isTaskBreakdown == m.isTaskBreakdown
        answer == answerQuestion(env.answer)
        name == c.activeDocument.name
        botResponse ==
            IF answer = "" THEN NoAnswerText
            ELSE (IF isLaymanRequest THEN "In Simple Terms - "
                  ELSE IF isTaskBreakdown THEN "Task Breakdown for Dev Assignment - "
                  ELSE "Answer from ") \o name \o ": " \o answer
    IN  Reply([S EXCEPT !.calls = @ \cup {"answer"},
                        !.conversationHistory =
                            lastOf(@, ChatHistoryWindow)
                            \o <<[role |-> "user", content |-> userMessage],
                                 [role |-> "assistant", content |-> botResponse]>>],
              botResponse,
              IF answer = "" THEN <<>> ELSE c.sourceDocuments)

\* Document Q&A that publishes the attached documents as the sources on display.
documentQAPublishingSources(S, c, env, userMessage, m) ==
    LET answer == answerQuestion(env.answer)
        botResponse ==
            IF answer = "" THEN NoAnswerText
            ELSE (IF m.isLaymanRequest THEN "In Simple Terms - "
                  ELSE IF m.isTaskBreakdown THEN "Task Breakdown for Dev Assignment - "
                  ELSE "Answer from ") \o c.activeDocument.name \o ": " \o answer
        newSourceDocs == IF answer = "" THEN <<>> ELSE c.sourceDocuments
    IN  Reply([S EXCEPT !.calls = @ \cup {"answer"},
                        !.sourceDocuments = newSourceDocs,
                        !.conversationHistory =
                            lastOf(@, QAHistoryWindow)
                            \o <<[role |-> "user", content |-> userMessage],
                                 [role |-> "assistant", content |-> botResponse]>>],
              botResponse, newSourceDocs)

documentQABranch(S, c, env, userMessage, m) ==
    LET isLaymanRequest == m.isLaymanRequest
        isTaskBreakdown == m.isTaskBreakdown
        answer == answerQuestion(env.answer)
        name == c.activeDocument.name
        botResponse ==
            IF answer = "" THEN NoAnswerText
            ELSE (IF isLaymanRequest THEN "In Simple Terms - "
                  ELSE IF isTaskBreakdown THEN "Task Breakdown for Dev Assignment - "
                  ELSE "Answer from ") \o name \o ": " \o answer
    IN  Reply([S EXCEPT !.calls = @ \cup {"answer"},
                        !.conversationHistory =
                            lastOf(@, QAHistoryWindow)
                            \o <<[role |-> "user", content |-> userMessage],
                                 [role |-> "assistant", content |-> botResponse]>>],
              botResponse,
              IF answer = "" THEN <<>> ELSE c.sourceDocuments)

mediaBranch(S, c, env, m) ==
    LET mediaType == m.mediaType
        searchTerms == m.searchTerms
        searchTerm == IF Len(searchTerms) > 0 THEN searchTerms[1] ELSE ""
        queryTerm == IF searchTerm # "" THEN searchTerm
                     ELSE IF mediaType = "video" THEN "video" ELSE "image"
        results == IF env.auth THEN searchMedia(env.store, queryTerm, mediaType) ELSE <<>>
        showMultiple == m.mediaShowMultiple
        requestedMediaCount == m.requestedCount
        maxFiles == IF requestedMediaCount # 0 THEN requestedMediaCount
                    ELSE IF showMultiple THEN MultipleCount ELSE 1
        displayResults == slice(results, maxFiles)
        S1 == [S EXCEPT !.calls = @ \cup (IF env.auth THEN {"searchMedia"} ELSE {}),
                        !.currentContext = NULL]
    IN  IF Len(results) > 0
        THEN Reply([S1 EXCEPT !.sourceDocuments = displayResults,
                              !.lastFileList = displayResults],
                   "I found " \o Str(Len(results)) \o " media file(s)", displayResults)
        ELSE Reply(S1, "I couldn't find any media files in your OneDrive.", <<>>)

NoSourceText ==
    "I don't have a specific source for the previous response. Could you ask a question first?"

\* A source branch that looks the FAQ source file up before it looks at sourceDocuments.
sourceBranchContextFirst(S, c, env) ==
    LET lastSourceFile == IF c.currentContext # NULL THEN c.currentContext.lastSourceFile
                          ELSE ""
        doc == findSourceDocument(env, lastSourceFile)
    IN  IF lastSourceFile # ""
        THEN LET S1 == [S EXCEPT !.calls = @ \cup (IF env.auth THEN {"searchFiles"}
                                                   ELSE {})]
             IN  IF doc # NULL
                 THEN Reply([S1 EXCEPT !.sourceDocuments = <<doc>>],
                            "Source: " \o doc.name, <<doc>>)
                 ELSE Reply(S1, "Source: " \o lastSourceFile
                                \o ".docx - Check the relevant department folder.", <<>>)
        ELSE IF Len(c.sourceDocuments) > 0
        THEN Reply(S, "Source Documents: "
                      \o joinWith(MapSeq(c.sourceDocuments, LAMBDA d : d.name), ", "),
                   <<>>)
        ELSE Reply(S, NoSourceText, <<>>)

sourceBranch(S, c, env) ==
    LET lastSourceFile == IF c.currentContext # NULL THEN c.currentContext.lastSourceFile
                          ELSE ""
        doc == findSourceDocument(env, lastSourceFile)
    IN  IF Len(c.sourceDocuments) > 0
        THEN Reply(S, "Source Documents: "
                      \o joinWith(MapSeq(c.sourceDocuments, LAMBDA d : d.name), ", "),
                   <<>>)
        ELSE IF lastSourceFile # ""
        THEN LET S1 == [S EXCEPT !.calls = @ \cup (IF env.auth THEN {"searchFiles"}
                                                   ELSE {})]
             IN  IF doc # NULL
                 THEN Reply([S1 EXCEPT !.sourceDocuments = <<doc>>],
                            "Source: " \o doc.name, <<doc>>)
                 ELSE Reply(S1, "Source: " \o lastSourceFile
                                \o ".docx - Check the relevant department folder.", <<>>)
        ELSE Reply(S, NoSourceText, <<>>)

\* The results with their duplicates left in.
withDuplicates(files) == files

\* allResults.filter((file, index, self) => index === self.findIndex(f => f.id === file.id))
uniqueById(files) ==
    LET keep == {k \in 1..Len(files) : \A j \in 1..(k - 1) : files[j].id # files[k].id}
        pos(n) == CHOOSE k \in keep : Cardinality({j \in keep : j <= k}) = n
    IN  [n \in 1..Cardinality(keep) |-> files[pos(n)]]

RECURSIVE concatResults(_, _, _)
concatResults(c, env, terms) ==
    IF Len(terms) = 0 THEN <<>>
    ELSE searchDocuments(c, env, Head(terms)) \o concatResults(c, env, Tail(terms))

\* The display count with the multiple-files default taken before the requested count.
displayCountMultipleFirst(m) ==
    IF m.wantsMultipleFiles THEN MultipleCount
    ELSE IF m.requestedCount # 0 THEN m.requestedCount ELSE 1

\* The count of files a list-producing branch displays.
displayCount(m) ==
    IF m.requestedCount # 0 THEN m.requestedCount
    ELSE IF m.wantsMultipleFiles THEN MultipleCount ELSE 1

\* A file search that displays what it found without storing the list for selection.
fileSearchWithoutList(S, c, env, m) ==
    LET uniqueResults == uniqueById(concatResults(c, env, m.searchTerms))
        displayResults ==
            slice(applyFileFilters(uniqueResults, m.wantsFolders, m.wantsDocumentsOnly),
                  displayCount(m))
    IN  Reply([S EXCEPT !.calls = @ \cup UnionOver(m.searchTerms,
                                        LAMBDA t : searchDocumentsCalls(c, env, t)),
                        !.currentContext = NULL,
                        !.found = uniqueResults,
                        !.sourceDocuments = displayResults],
              "I found " \o Str(Len(displayResults)) \o " file(s)", displayResults)

fileSearchBranch(S, c, env, m) ==
    LET searchTerms == m.searchTerms
        allResults == concatResults(c, env, searchTerms)
        uniqueResults == uniqueById(allResults)
        filteredResults == applyFileFilters(uniqueResults, m.wantsFolders,
                                            m.wantsDocumentsOnly)
        displayResults == slice(filteredResults, displayCount(m))
        S1 == [S EXCEPT !.calls = @ \cup UnionOver(searchTerms,
                                        LAMBDA t : searchDocumentsCalls(c, env, t)),
                        !.currentContext = NULL,
                        !.found = uniqueResults]
    IN  IF Len(searchTerms) = 0
        THEN Reply(S1, "Please specify what files you're looking for.", <<>>)
        ELSE IF Len(filteredResults) > 0
        THEN Reply([S1 EXCEPT !.sourceDocuments = displayResults,
                              !.lastFileList = displayResults],
                   "I found " \o Str(Len(filteredResults)) \o " file(s) related to "
                   \o joinWith(searchTerms, ", "), displayResults)
        ELSE Reply(S1, "I couldn't find any files matching "
                       \o joinWith(searchTerms, ", "), <<>>)

\* The file search the follow-up and default branches fall back to: the first term only.
fallbackSearch(S, c, env, m, notFoundText) ==
    LET searchTerms == m.searchTerms
        results == searchDocuments(c, env, searchTerms[1])
        filtered == applyFileFilters(results, m.wantsFolders, m.wantsDocumentsOnly)
        displayResults == slice(filtered, displayCount(m))
        S1 == [S EXCEPT !.calls = @ \cup searchDocumentsCalls(c, env, searchTerms[1]),
                        !.found = results]
    IN  IF Len(filtered) > 0
        THEN Reply([S1 EXCEPT !.sourceDocuments = displayResults,
                              !.lastFileList = displayResults],
                   "I found " \o Str(Len(filtered)) \o " file(s) matching your query",
                   displayResults)
        ELSE Reply(S1, notFoundText, <<>>)

newTopic(S, match) ==
    Reply([S EXCEPT !.currentContext =
                        [topic |-> match, lastSourceFile |-> "", resolved |-> FALSE],
                    !.sourceDocuments = <<>>],
          "Topic: " \o knowledgeBase[match].topic, <<>>)

\* The follow-up branch closing the topic once a follow-up is resolved.
followUpBranchClosingTopic(S, c, env, m) ==
    LET followUpResult == m.followUp[c.currentContext.topic]
        doc == findSourceDocument(env, followUpResult.sourceFile)
        match == m.knowledgeMatch
        S1 == [S EXCEPT !.calls = @ \cup (IF env.auth THEN {"searchFiles"} ELSE {}),
                        !.currentContext = NULL]
    IN  IF followUpResult # NULL
        THEN IF doc # NULL
             THEN Reply([S1 EXCEPT !.sourceDocuments = <<doc>>],
                        "Follow-up: " \o followUpResult.key, <<doc>>)
             ELSE Reply(S1, "Follow-up: " \o followUpResult.key, <<>>)
        ELSE IF match # 0 THEN newTopic(S, match)
        ELSE IF Len(m.searchTerms) > 0
        THEN fallbackSearch(S, c, env, m, "I'm not sure I understand.")
        ELSE Reply(S, "I'm not sure I understand.", <<>>)

followUpBranch(S, c, env, m) ==
    LET followUpResult == m.followUp[c.currentContext.topic]
        doc == findSourceDocument(env, followUpResult.sourceFile)
        match == m.knowledgeMatch
        S1 == [S EXCEPT !.calls = @ \cup (IF env.auth THEN {"searchFiles"} ELSE {}),
                        !.currentContext =
                            [c.currentContext EXCEPT
                                !.lastSourceFile = followUpResult.sourceFile,
                                !.resolved = TRUE]]
    IN  IF followUpResult # NULL
        THEN IF doc # NULL
             THEN Reply([S1 EXCEPT !.sourceDocuments = <<doc>>],
                        "Follow-up: " \o followUpResult.key, <<doc>>)
             ELSE Reply(S1, "Follow-up: " \o followUpResult.key, <<>>)
        ELSE IF match # 0 THEN newTopic(S, match)
        ELSE IF Len(m.searchTerms) > 0
        THEN fallbackSearch(S, c, env, m,
                 "I'm not sure I understand. Could you please rephrase your question or try searching for specific file names?")
        ELSE Reply(S, "I'm not sure I understand. Could you please rephrase your question or provide more details?", <<>>)

ChatErrorText == "I'm having trouble processing your request."

\* llmService.getChatResponse never throws either.
getChatResponse(outcome) ==
    CASE outcome = "text" -> "Happy to help."
      [] outcome = "error" -> ChatErrorText
      [] OTHER -> ""

defaultBranch(S, c, env, userMessage, m) ==
    LET match == m.knowledgeMatch
        botResponse == getChatResponse(env.answer)
    IN  IF match # 0 THEN newTopic(S, match)
        ELSE IF Len(m.searchTerms) > 0
        THEN fallbackSearch(S, c, env, m,
                            "I couldn't find files matching " \o userMessage)
        ELSE IF c.aiEnabled
        THEN Reply([S EXCEPT !.calls = @ \cup {"chat"},
                             !.conversationHistory =
                                 lastOf(@, ChatHistoryWindow)
                                 \o <<[role |-> "user", content |-> userMessage],
                                      [role |-> "assistant", content |-> botResponse]>>],
                   botResponse, <<>>)
        ELSE Reply(S, "I'm sorry, I couldn't find specific information about "
                      \o userMessage, <<>>)

\* A selection that ignores the number and takes the first question.
firstQuestion(S, m) == S.lastSuggestedQuestions[1]

\* lastSuggestedQuestionsRef.current[qIdx]
selectedQuestion(S, m) == S.lastSuggestedQuestions[m.number]

\* A clearing that removes only the first question of the list.
dropFirstSuggestion(S) ==
    [S EXCEPT !.lastSuggestedQuestions = Tail(@), !.isTyping = FALSE]

\* A clearing that keeps the last question of the list.
keepLastSuggestion(S) ==
    [S EXCEPT !.lastSuggestedQuestions = <<@[Len(@)]>>, !.isTyping = FALSE]

\* lastSuggestedQuestionsRef.current = []; setIsTyping(false)
clearSuggestedQuestions(S) ==
    [S EXCEPT !.lastSuggestedQuestions = <<>>, !.isTyping = FALSE]

\* An end of run that puts the reply in the place of the last message.
replaceLastMessage(R) ==
    IF R.reply
    THEN [R.S EXCEPT !.isTyping = FALSE,
                     !.messages = [@ EXCEPT ![Len(@)] = BotMessage(R.text, R.sources)],
                     !.response = R.text,
                     !.attached = R.sources]
    ELSE R.S

\* The end of a run: setIsTyping(false) and the bot message with its sources.
appendBotMessage(R) ==
    IF R.reply
    THEN [R.S EXCEPT !.isTyping = FALSE,
                     !.messages = Append(@, BotMessage(R.text, R.sources)),
                     !.response = R.text,
                     !.attached = R.sources]
    ELSE R.S

RECURSIVE handleSend(_, _, _, _)

\* The guard chain and the branch it selects, on the session that holds the user
\* message.  A selected suggested question is re-sent through handleSend itself.
\* The body of the branch the guard chain selected, up to the bot message it appends.
runBranch(branch, S2, c, env, userMessage, m) ==
    appendBotMessage(
        CASE branch = "showAll" -> showAllBranch(S2)
          [] branch = "recentFiles" -> recentFilesBranch(S2, env, m)
          [] branch = "fileSelection" -> fileSelectionBranch(S2, c, env, m)
          [] branch = "newDocument" -> newDocumentBranch(S2)
          [] branch = "readSummarize" -> readSummarizeBranch(S2, c, env, m)
          [] branch = "pmDocument" -> pmDocumentBranch(S2, c, env)
          [] branch = "documentQA" -> documentQABranch(S2, c, env, userMessage, m)
          [] branch = "media" -> mediaBranch(S2, c, env, m)
          [] branch = "source" -> sourceBranch(S2, c, env)
          [] branch = "fileSearch" -> fileSearchBranch(S2, c, env, m)
          [] branch = "followUp" -> followUpBranch(S2, c, env, m)
          [] OTHER -> defaultBranch(S2, c, env, userMessage, m))

runGuardChain(S1, c, env, userMessage, m) ==
    LET branch == route(S1, c, m)
        S2 == [S1 EXCEPT !.branches = Append(@, branch)]
    IN  IF branch = "suggestedQuestion"
        THEN handleSend(clearSuggestedQuestions(S2), c, selectedQuestion(S2, m), env)
        ELSE runBranch(branch, S2, c, env, userMessage, m)

\* One run of handleSend on a message that is already resolved (the direct message, or
\* the trimmed input).
handleSend(S, c, messageToSend, env) ==
    IF messageToSend = "" THEN S
    ELSE runGuardChain([S EXCEPT !.messages = Append(@, UserMessage(messageToSend)),
                                 !.isTyping = TRUE],
                       c, env, messageToSend, intent(messageToSend))

\* generatePMDocument names the file after the PM number of the form.
pmFileName(pmNumber) ==
    IF pmNumber # "" THEN "PM" \o pmNumber \o " Impact Analysis Document.docx"
    ELSE "PM Impact Analysis Document.docx"

\* handlePMDocGenerate: the form is closed, the document is generated and downloaded,
\* and in upload mode it becomes the pending upload.
handlePMDocGenerate(S, pmNumber, mode, generated) ==
    LET fileName == pmFileName(pmNumber)
    IN  IF generated
        THEN [S EXCEPT !.showPMDocForm = FALSE,
                       !.messages = Append(@, BotMessage(fileName \o " has been downloaded.",
                                                         <<>>)),
                       !.pendingUploadFile = IF mode = "upload" THEN fileName ELSE @]
        ELSE [S EXCEPT !.showPMDocForm = FALSE,
                       !.messages = Append(@, BotMessage("Failed to generate the document",
                                                         <<>>))]

(***************************************************************************)
(* Upload handlers.                                                        *)
(***************************************************************************)
SUPPORTED_UPLOAD_EXTENSIONS ==
    <<"docx", "doc", "xlsx", "xls", "pptx", "ppt", "pdf", "txt", "md", "csv",
      "json", "xml", "html", "htm">>

MAX_UPLOAD_SIZE == 150 * 1024 * 1024

\* The size in bytes of the files a user can pick or drop; a file is named by its name.
fileSize(name) == IF name = "Scan.pdf" THEN MAX_UPLOAD_SIZE + 1 ELSE 1024

\* (bytes / 1024 / 1024).toFixed(1): megabytes rounded to one decimal place.
megabytes(bytes) ==
    LET MB == 1024 * 1024
        tenths == 10 * (bytes \div MB) + (10 * (bytes % MB) + MB \div 2) \div MB
    IN  ToString(tenths \div 10) \o "." \o ToString(tenths % 10)

\* The text validateFile returns, "" for null.
validationError(name) ==
    IF ~SeqContains(SUPPORTED_UPLOAD_EXTENSIONS, extensionOf(name))
    THEN "Unsupported file type \"." \o extensionOf(name) \o "\". Supported: "
         \o joinWith(SUPPORTED_UPLOAD_EXTENSIONS, ", ")
    ELSE IF fileSize(name) > MAX_UPLOAD_SIZE
    THEN "File too large (" \o megabytes(fileSize(name)) \o "MB). Maximum: "
         \o ToString(MAX_UPLOAD_SIZE \div (1024 * 1024)) \o "MB"
    ELSE ""

\* A validation that looks at the extension alone.
validateExtensionOnly(name) ==
    ~SeqContains(SUPPORTED_UPLOAD_EXTENSIONS, extensionOf(name))

\* validateFile: TRUE when the file is refused.
validateFile(name) == validationError(name) # ""

MaxRecentUploads == 20

\* The list with the new upload put in front and nothing dropped.
trackUploadUnbounded(uploads, entry) == <<entry>> \o uploads

\* recentUploadsRef.current = [entry, ...recentUploadsRef.current].slice(0, 20)
trackUpload(uploads, entry) == slice(<<entry>> \o uploads, MaxRecentUploads)

\* The item the backend creates for an uploaded file.
uploadedItem(name) == FileRecord("u:" \o name, name, FALSE)

handleFolderSelected(S, c, file, env) ==
    LET item == uploadedItem(file)
        docContent == readDocument(env, item)
        usable == hasUsableContent(docContent)
        isCRDoc == isCRName(file)
        numberedQuestions ==
            IF c.aiEnabled /\ usable
            THEN suggestedQuestions(env)
                 \o (IF isCRDoc THEN <<UploadLaymanSuggestion, TaskSuggestion>> ELSE <<>>)
            ELSE <<>>
        S0 == [S EXCEPT !.pendingUploadFile = "",
                        !.messages = Append(@, UserMessage("Upload " \o file))]
        S1 == [S0 EXCEPT !.recentUploads =
                             trackUpload(@, [id |-> item.id, name |-> file]),
                         !.sourceDocuments = <<item>>,
                         !.calls = @ \cup {"uploadFile", "getDocumentContent"}]
        S2 == IF usable
              THEN [S1 EXCEPT !.activeDocument =
                                  [id |-> item.id, name |-> file,
                                   content |-> docContent.content, isVideo |-> FALSE],
                              !.calls = @ \cup generateSummaryCalls(c)
                                          \cup (IF c.aiEnabled THEN {"answer"} ELSE {})]
              ELSE S1
        S3 == IF Len(numberedQuestions) > 0
              THEN [S2 EXCEPT !.lastSuggestedQuestions = numberedQuestions,
                              !.lastFileList = <<>>]
              ELSE S2
        done(T, text, sources) ==
            [T EXCEPT !.messages = Append(@, BotMessage(text, sources)),
                      !.response = text, !.attached = sources]
    IN  IF ~env.auth
        THEN done(S0, "Upload failed. Please try again or check your permissions.", <<>>)
        ELSE done(S3, "File " \o file \o " uploaded successfully.", <<item>>)

(***************************************************************************)
(* The chat session as a state machine.  A handler run is one step: the    *)
(* awaits inside a run are not interleaved with other handlers.            *)
(***************************************************************************)
(***************************************************************************)
(* The LLM service: the provider in use and the providers found.           *)
(***************************************************************************)
LLM_PROVIDERS ==
    [NONE |-> "none", CLAUDE |-> "claude", AZURE_OPENAI |-> "azure-openai",
     GROQ |-> "groq", GEMINI |-> "gemini", OLLAMA |-> "ollama"]

\* The providers initializeLLM asks the configuration about, in the order it asks.
configuredChecks ==
    <<LLM_PROVIDERS.CLAUDE, LLM_PROVIDERS.GEMINI, LLM_PROVIDERS.AZURE_OPENAI,
      LLM_PROVIDERS.GROQ>>

\* The module as loaded, in a build with the providers of the set configured and the
\* Ollama server up or down: no provider is active, none was found, no initializeLLM is
\* waiting for checkOllamaStatus, nothing was called.
loadedService(configured, ollamaUp) ==
    [activeProvider |-> LLM_PROVIDERS.NONE,
     availableProviders |-> <<>>,
     ollamaStatus |-> [running |-> FALSE],
     waiting |-> <<>>,
     configured |-> configured,
     ollamaUp |-> ollamaUp,
     last |-> [fn |-> "none", providerId |-> "", activeBefore |-> LLM_PROVIDERS.NONE,
               wasAvailable |-> FALSE, returned |-> NULL],
     calls |-> 0]

\* checkOllamaStatus: the server answers when it is up, the fetch fails when it is not.
checkOllamaStatus(service) == [running |-> service.ollamaUp]

\* initializeLLM (or recheckLLM, which awaits it) up to its await: the configured
\* providers are collected and the Ollama server is asked.
beginInitializeLLM(service, fn) ==
    [service EXCEPT
        !.waiting = Append(@, [fn |-> fn,
                               providers |-> SelectSeq(configuredChecks,
                                                LAMBDA id : id \in service.configured)]),
        !.calls = @ + 1]

\* initializeLLM from the answer of checkOllamaStatus to its return.
finishInitializeLLM(service, i) ==
    LET status == checkOllamaStatus(service)
        providers == service.waiting[i].providers
                     \o (IF status.running THEN <<LLM_PROVIDERS.OLLAMA>> ELSE <<>>)
        active == IF service.activeProvider = LLM_PROVIDERS.NONE /\ Len(providers) > 0
                  THEN providers[1] ELSE service.activeProvider
    IN  [service EXCEPT
            !.ollamaStatus = status,
            !.availableProviders = providers,
            !.activeProvider = active,
            !.waiting = SubSeq(@, 1, i - 1) \o SubSeq(@, i + 1, Len(@)),
            !.last = [fn |-> service.waiting[i].fn, providerId |-> "",
                      activeBefore |-> service.activeProvider, wasAvailable |-> FALSE,
                      returned |-> [activeProvider |-> active,
                                    availableProviders |-> providers]]]

setLLMProvider(service, providerId) ==
    LET provider == SeqContains(service.availableProviders, providerId)
        called == [fn |-> "setLLMProvider", providerId |-> providerId,
                   activeBefore |-> service.activeProvider, wasAvailable |-> provider,
                   returned |-> provider]
    IN  IF provider
        THEN [service EXCEPT !.activeProvider = providerId, !.last = called,
                             !.calls = @ + 1]
        ELSE [service EXCEPT !.last = called, !.calls = @ + 1]

isLLMAvailable(service) == service.activeProvider # LLM_PROVIDERS.NONE

\* The service of the chat sessions: Gemini is configured, no Ollama server.
ServiceAtMount == loadedService({LLM_PROVIDERS.GEMINI}, FALSE)

\* The service once the mount effect's initializeLLM has returned.
ServiceMounted == finishInitializeLLM(beginInitializeLLM(ServiceAtMount, "initializeLLM"), 1)

VARIABLES
    messages, isTyping, currentContext, sourceDocuments, activeDocument,
    lastFileList, lastSearchResults, lastSuggestedQuestions, recentUploads,
    conversationHistory, aiEnabled, pendingUploadFile, showPMDocForm, pmDocFormData,
    inFlight,   \* the handleSend and handleGeneratePMDoc runs that wait for a collaborator
    llmService, \* the LLM service module: active and available providers, its environment
    summary,    \* history: the last generateSummary call (its input and what it returned)
    call,       \* history: the last call of a text function (its argument and result)
    turn,       \* history: the last handler run (its input, the state it started in, its trace)
    turns       \* history: the number of handler runs so far

vars ==
    <<messages, isTyping, currentContext, sourceDocuments, activeDocument,
      lastFileList, lastSearchResults, lastSuggestedQuestions, recentUploads,
      conversationHistory, aiEnabled, pendingUploadFile, showPMDocForm, pmDocFormData,
      inFlight, summary, call, turn, turns, llmService>>

MaxTurns == 2

UploadFiles == {"CR20050 Plan.docx", "setup.exe", "Scan.pdf"}

\* The PM numbers typed into the form.
PMNumbers == {"", "13366"}

Greeting == "Hello! I'm Nvest Insider, your Knowledge centre. How can I help you today?"

\* The component state a handler run starts from, with an empty trace.
Session ==
    [messages |-> messages, isTyping |-> isTyping, currentContext |-> currentContext,
     sourceDocuments |-> sourceDocuments, activeDocument |-> activeDocument,
     lastFileList |-> lastFileList, lastSearchResults |-> lastSearchResults,
     lastSuggestedQuestions |-> lastSuggestedQuestions, recentUploads |-> recentUploads,
     conversationHistory |-> conversationHistory, pendingUploadFile |-> pendingUploadFile,
     showPMDocForm |-> showPMDocForm, pmDocFormData |-> pmDocFormData,
     branches |-> <<>>, calls |-> {}, response |-> "", attached |-> <<>>, found |-> <<>>,
     searched |-> <<>>]

\* The values the handlers of the current render have closed over.
Captured ==
    [aiEnabled |-> aiEnabled, activeDocument |-> activeDocument,
     sourceDocuments |-> sourceDocuments, currentContext |-> currentContext,
     conversationHistory |-> conversationHistory, recentUploads |-> recentUploads]

DefaultEnv ==
    [auth |-> TRUE, store |-> NameStore, read |-> "long", answer |-> "text",
     questions |-> <<"What does this CR change?", "2">>]

\* Outcomes of the backend for a run that only searches or lists.
StoreEnvs ==
    {[DefaultEnv EXCEPT !.auth = FALSE]} \cup {[DefaultEnv EXCEPT !.store = st] : st \in Stores}

\* Outcomes for a run that only asks the language model.
AnswerEnvs == {[DefaultEnv EXCEPT !.answer = a] : a \in AnswerOutcomes}

\* Outcomes for a run that only reads a document.
ReadEnvs ==
    {[DefaultEnv EXCEPT !.auth = FALSE]} \cup {[DefaultEnv EXCEPT !.read = r] : r \in ReadOutcomes}

\* Outcomes for a run that searches, reads and (with AI enabled) asks for suggestions.
SearchReadEnvs(ai) ==
    {e \in Envs :
        /\ ~e.auth => e = [DefaultEnv EXCEPT !.auth = FALSE]
        /\ e.store = EmptyStore => e = [DefaultEnv EXCEPT !.store = EmptyStore]
        /\ e.store = ContentStore => e = [DefaultEnv EXCEPT !.store = ContentStore]
        /\ e.store \in {LaterMatchStore, FallbackStore, IndexedStore} =>
               e = [DefaultEnv EXCEPT !.store = e.store]
        /\ e.store = VideoStore => (e.answer = "text" /\ e.questions = DefaultEnv.questions)
        /\ (e.read # "long" \/ ~ai) => (e.answer = "text" /\ e.questions = DefaultEnv.questions)
        /\ e.answer # "text" => e.questions = DefaultEnv.questions}

\* The collaborator outcomes a branch can observe; the ones it never consults are held
\* fixed.
outcomesOf(branch, c, m) ==
    CASE branch \in {"showAll", "newDocument"} -> {DefaultEnv}
      [] branch \in {"recentFiles", "media", "fileSearch", "source", "followUp"} -> StoreEnvs
      [] branch = "fileSelection" -> ReadEnvs
      [] branch = "readSummarize" -> SearchReadEnvs(c.aiEnabled)
      [] branch \in {"pmDocument", "pmPrefill", "documentQA"} -> AnswerEnvs
      [] OTHER -> IF m.knowledgeMatch # 0 THEN {DefaultEnv}
                  ELSE IF Len(m.searchTerms) > 0 THEN StoreEnvs
                  ELSE IF c.aiEnabled THEN AnswerEnvs
                  ELSE {DefaultEnv}

routedOutcomes(S1, c, m) == outcomesOf(route(S1, c, m), c, m)

\* The outcomes for the branch that finally handles a message: that of the re-sent
\* question after a selection.
finalOutcomes(S1, c, m) ==
    IF route(S1, c, m) = "suggestedQuestion"
    THEN routedOutcomes(clearSuggestedQuestions(S1), c, intent(selectedQuestion(S1, m)))
    ELSE routedOutcomes(S1, c, m)

EnvsFor(S, c, userMessage) ==
    finalOutcomes([S EXCEPT !.messages = Append(@, UserMessage(userMessage))], c,
                  intent(userMessage))

\* A generateSummary call that was not made yet.
pendingSummary(content, ai, outcome) ==
    [content |-> content, ai |-> ai, outcome |-> outcome, done |-> FALSE, calls |-> {},
     isNull |-> TRUE, text |-> ""]

InitSession ==
    /\ messages = <<BotMessage(Greeting, <<>>)>>
    /\ isTyping = FALSE
    /\ currentContext = NULL
    /\ sourceDocuments = <<>>
    /\ activeDocument = NULL
    /\ lastFileList = <<>>
    /\ lastSearchResults = <<>>
    /\ lastSuggestedQuestions = <<>>
    /\ recentUploads = <<>>
    /\ conversationHistory = <<>>
    /\ aiEnabled = FALSE
    /\ pendingUploadFile = ""
    /\ showPMDocForm = FALSE
    /\ pmDocFormData = "none"
    /\ inFlight = <<>>
    /\ turn = [op |-> "none", message |-> "", pre |-> NULL, ai |-> FALSE,
               branches |-> <<>>, calls |-> {}, response |-> "", attached |-> <<>>,
               found |-> <<>>, searched |-> <<>>,
               last |-> [message |-> "", branches |-> <<>>]]
    /\ turns = 0

\* No text function was called yet.
NoCall == [fn |-> "none", done |-> FALSE]

Init ==
    /\ InitSession
    /\ summary = pendingSummary("", FALSE, "null")
    /\ call = NoCall
    /\ llmService = ServiceAtMount

\* The component state after a handler step that ended in T.
CommitState(T) ==
    /\ messages' = T.messages
    /\ isTyping' = T.isTyping
    /\ currentContext' = T.currentContext
    /\ sourceDocuments' = T.sourceDocuments
    /\ activeDocument' = T.activeDocument
    /\ lastFileList' = T.lastFileList
    /\ lastSearchResults' = T.lastSearchResults
    /\ lastSuggestedQuestions' = T.lastSuggestedQuestions
    /\ recentUploads' = T.recentUploads
    /\ conversationHistory' = T.conversationHistory
    /\ pendingUploadFile' = T.pendingUploadFile
    /\ showPMDocForm' = T.showPMDocForm
    /\ pmDocFormData' = T.pmDocFormData

\* The state and the history after a handler run that ended in T, no other run being
\* in flight.
Commit(T, op, message) ==
    /\ CommitState(T)
    /\ turn' = [op |-> op, message |-> message, pre |-> Session, ai |-> aiEnabled,
                branches |-> T.branches, calls |-> T.calls, response |-> T.response,
                attached |-> T.attached, found |-> T.found, searched |-> T.searched,
                last |-> [message |-> turn.message, branches |-> turn.branches]]
    /\ turns' = turns + 1
    /\ UNCHANGED <<aiEnabled, inFlight, summary, call, llmService>>

\* The mount effect: initializeLLM resolves and finds a provider.
InitializeLLM ==
    /\ ~aiEnabled
    /\ llmService' = finishInitializeLLM(beginInitializeLLM(llmService, "initializeLLM"), 1)
    /\ aiEnabled' = isLLMAvailable(llmService')
    /\ UNCHANGED <<messages, isTyping, currentContext, sourceDocuments, activeDocument,
                   lastFileList, lastSearchResults, lastSuggestedQuestions, recentUploads,
                   conversationHistory, pendingUploadFile, showPMDocForm, pmDocFormData,
                   inFlight, summary, call, turn, turns>>

\* Send button / Enter key: handleSend() on the trimmed input.
Send ==
    /\ turns < MaxTurns
    /\ \E input \in Inputs :
          LET messageToSend == trim(input)
          IN  IF messageToSend = "" THEN UNCHANGED vars
              ELSE \E env \in EnvsFor(Session, Captured, messageToSend) :
                      Commit(handleSend(Session, Captured, messageToSend, env),
                             "handleSend", messageToSend)

\* A click on a question card: handleSend(question).
SendCard ==
    /\ turns < MaxTurns
    /\ Len(messages) <= 2
    /\ \E question \in suggestedQuestionCards :
          \E env \in EnvsFor(Session, Captured, question) :
              Commit(handleSend(Session, Captured, question, env), "handleSend", question)

\* The close button of the active-document bar.
CloseActiveDocument ==
    /\ turns < MaxTurns
    /\ activeDocument # NULL /\ aiEnabled
    /\ Commit([Session EXCEPT !.activeDocument = NULL], "close", "")

FileSelected ==
    /\ turns < MaxTurns
    /\ \E file \in UploadFiles :
          IF validateFile(file)
          THEN Commit([Session EXCEPT !.messages =
                           Append(@, BotMessage("Upload failed: " \o validationError(file),
                                                <<>>))],
                      "handleFileSelected", file)
          ELSE Commit([Session EXCEPT !.pendingUploadFile = file],
                      "handleFileSelected", file)

FolderSelected ==
    /\ turns < MaxTurns
    /\ pendingUploadFile # ""
    /\ \E env \in ReadEnvs :
          Commit(handleFolderSelected(Session, Captured, pendingUploadFile, env),
                 "handleFolderSelected", pendingUploadFile)

\* The PM form is submitted in download or upload mode.
PMDocGenerate ==
    /\ turns < MaxTurns
    /\ showPMDocForm
    /\ \E pmNumber \in PMNumbers, mode \in {"download", "upload"}, generated \in BOOLEAN :
          Commit(handlePMDocGenerate(Session, pmNumber, mode, generated),
                 "handlePMDocGenerate", pmFileName(pmNumber))

Next ==
    \/ InitializeLLM
    \/ Send
    \/ SendCard
    \/ CloseActiveDocument
    \/ FileSelected
    \/ FolderSelected
    \/ PMDocGenerate

Spec == Init /\ [][Next]_vars

(***************************************************************************)
(* Interleaved runs.  handleSend is an async function: it runs up to its   *)
(* first await when it is called, and the rest runs when the collaborator  *)
(* it waits for has answered.  Between the two steps the component renders *)
(* and its event handlers can be called again.  The branch is chosen       *)
(* before the first await, from the refs as they are then; the rest of the *)
(* branch writes to the refs and the state as they are when it resumes.    *)
(* handleGeneratePMDoc, which the PM-document guard starts and does not    *)
(* await, runs up to its own await in the step of the run that starts it   *)
(* and waits for the model after that run has returned.                    *)
(***************************************************************************)
\* The branches that reach their return with no await on the way.
returnsAtOnce(branch, S1, m) ==
    \/ branch \in {"showAll", "newDocument"}
    \/ branch = "fileSelection" /\ ~(m.number \in 1..Len(S1.lastFileList))

\* A run that is waiting: its message, the values its closure holds, the branch it is
\* in and the file list it read before waiting.
Invocation(userMessage, c, branch, fileList) ==
    [message |-> userMessage, c |-> c, branch |-> branch, fileList |-> fileList]

RECURSIVE startSend(_, _, _, _)

\* The guard chain on the session that holds the user message, up to the first await.
\* The PM-document guard starts handleGeneratePMDoc and returns: with a document active
\* that call is the one left waiting, on the model's answer.
startBranch(branch, S1, c, env, userMessage, m) ==
    IF branch = "suggestedQuestion"
    THEN startSend(clearSuggestedQuestions(S1), c, selectedQuestion(S1, m), env)
    ELSE IF branch = "pmDocument" /\ c.activeDocument # NULL
    THEN [S |-> beginGeneratePMDoc([S1 EXCEPT !.isTyping = FALSE]),
          waiting |-> <<Invocation(userMessage, c, "pmPrefill", S1.lastFileList)>>]
    ELSE IF returnsAtOnce(branch, S1, m) \/ branch = "pmDocument"
    THEN [S |-> runBranch(branch, S1, c, env, userMessage, m), waiting |-> <<>>]
    ELSE [S |-> S1,
          waiting |-> <<Invocation(userMessage, c, branch, S1.lastFileList)>>]

startRouted(S1, c, env, userMessage, m) ==
    startBranch(route(S1, c, m), S1, c, env, userMessage, m)

\* handleSend(messageToSend) up to its first await.
startSend(S, c, messageToSend, env) ==
    startRouted([S EXCEPT !.messages = Append(@, UserMessage(messageToSend)),
                          !.isTyping = TRUE],
                c, env, messageToSend, intent(messageToSend))

\* The rest of a waiting run, on the session as it is when the run resumes.  A numbered
\* selection works on the file list it read before waiting and does not write the list.
resumeSend(S, inv, env, m) ==
    IF inv.branch = "pmPrefill" THEN finishGeneratePMDoc(S, inv.c, env)
    ELSE IF inv.branch = "fileSelection"
    THEN [runBranch(inv.branch, [S EXCEPT !.lastFileList = inv.fileList],
                    inv.c, env, inv.message, m)
             EXCEPT !.lastFileList = S.lastFileList]
    ELSE runBranch(inv.branch, S, inv.c, env, inv.message, m)

removeAt(seq, i) == SubSeq(seq, 1, i - 1) \o SubSeq(seq, i + 1, Len(seq))

StartRun(messageToSend) ==
    \E env \in AnswerEnvs :
        LET R == startSend(Session, Captured, messageToSend, env)
        IN  /\ CommitState(R.S)
            /\ inFlight' = inFlight \o R.waiting
            /\ turns' = turns + 1
            /\ UNCHANGED <<aiEnabled, summary, call, turn, llmService>>

\* The send button, disabled while the input is blank or the typing indicator is on.
ClickSend ==
    /\ turns < MaxTurns
    /\ ~isTyping
    /\ \E input \in Inputs : trim(input) # "" /\ StartRun(trim(input))

\* The Enter key in the text input: handleKeyPress calls handleSend().
PressEnter ==
    /\ turns < MaxTurns
    /\ \E input \in Inputs :
          IF trim(input) = "" THEN UNCHANGED vars ELSE StartRun(trim(input))

\* A question card, rendered while the list holds at most two messages.
ClickCard ==
    /\ turns < MaxTurns
    /\ Len(messages) <= 2
    /\ \E question \in suggestedQuestionCards : StartRun(question)

ResumeWith(i, inv, m) ==
    \E env \in outcomesOf(inv.branch, inv.c, m) :
        /\ CommitState(resumeSend(Session, inv, env, m))
        /\ inFlight' = removeAt(inFlight, i)
        /\ UNCHANGED <<aiEnabled, summary, call, turn, turns, llmService>>

\* A collaborator answers and the run that waited for it goes on to its end.
Resume ==
    \E i \in 1..Len(inFlight) : ResumeWith(i, inFlight[i], intent(inFlight[i].message))

NextInterleaved ==
    \/ InitializeLLM
    \/ ClickSend
    \/ PressEnter
    \/ ClickCard
    \/ Resume
    \/ CloseActiveDocument
    \/ FileSelected
    \/ FolderSelected
    \/ PMDocGenerate

SpecInterleaved == Init /\ [][NextInterleaved]_vars

\* What a step of Resume does to the list of waiting runs: one of them leaves it.
Resumed == \E i \in 1..Len(inFlight) : inFlight' = removeAt(inFlight, i)

\* Every collaborator call returns or throws in the end: a run that waits is resumed.
\* Resume is the only action that takes a run off the list, and it can be taken whenever
\* the list is not empty.
SpecLive == Init /\ [][NextInterleaved]_vars /\ WF_inFlight(Resumed)

(***************************************************************************)
(* generateSummary on document texts.  The handlers above use only the     *)
(* calls it makes; here its result is computed from the text, character by *)
(* character, as the JavaScript does.                                      *)
(***************************************************************************)
\* The positions of s that hold a character of the set cs, in order.
positionsOf(s, cs) ==
    SelectSeq([i \in 1..Len(s) |-> i], LAMBDA i : Char(s, i) \in cs)

\* s.split(c) for a single-character separator of the set cs: the texts between
\* neighbouring separators, empty ones included.
splitAt(s, cs) ==
    LET ps == positionsOf(s, cs)
        from(k) == IF k = 1 THEN 1 ELSE ps[k - 1] + 1
        to(k) == IF k = Len(ps) + 1 THEN Len(s) ELSE ps[k] - 1
    IN  [k \in 1..(Len(ps) + 1) |-> SubSeq(s, from(k), to(k))]

\* s.split(/[cs]+/): as splitAt, a run of separators counting as one.
splitAtRuns(s, cs) ==
    LET ps == positionsOf(s, cs)
        from(k) == IF k = 1 THEN 1 ELSE ps[k - 1] + 1
        to(k) == IF k = Len(ps) + 1 THEN Len(s) ELSE ps[k] - 1
        insideRun(k) == k > 1 /\ k <= Len(ps) /\ ps[k] = ps[k - 1] + 1
        kept == SelectSeq([k \in 1..(Len(ps) + 1) |-> k], LAMBDA k : ~insideRun(k))
    IN  [j \in 1..Len(kept) |-> SubSeq(s, from(kept[j]), to(kept[j]))]

\* s.replace(/\s+/g, ' ')
collapseWhiteSpace(s) == joinWith(splitAtRuns(s, WhiteSpace), " ")

\* content.split('\n').filter((line, i, arr) => line.trim() && arr.indexOf(line) === i)
distinctLines(content) ==
    LET arr == splitAt(content, {"\n"})
        indexOf(line) == CHOOSE i \in 1..Len(arr) :
                             arr[i] = line /\ \A j \in 1..(i - 1) : arr[j] # line
        keep == SelectSeq([i \in 1..Len(arr) |-> i],
                          LAMBDA i : trim(arr[i]) # "" /\ indexOf(arr[i]) = i)
    IN  [j \in 1..Len(keep) |-> arr[keep[j]]]

cleanText(content) == trim(collapseWhiteSpace(joinWith(distinctLines(content), " ")))

SentenceEnds == {".", "!", "?"}
Brackets == {"[", "]", "(", ")", "{", "}"}

MinSentenceLength == 20
MaxSummarySentences == 5
DefaultMaxLength == 500

trimAll(seq) == [i \in 1..Len(seq) |-> trim(seq[i])]

\* text.split(/[.!?]+/).map(trim).filter(longer than 20 and not starting with a bracket)
meaningfulSentences(text) ==
    SelectSeq(trimAll(splitAtRuns(text, SentenceEnds)),
              LAMBDA t : Len(t) > MinSentenceLength /\ Char(t, 1) \notin Brackets)

\* The loop over the first five sentences: it stops at the first one that does not fit.
RECURSIVE appendSentences(_, _, _)
appendSentences(acc, sentences, maxLength) ==
    IF Len(sentences) = 0 THEN acc
    ELSE IF Len(acc) + Len(sentences[1]) > maxLength THEN acc
    ELSE appendSentences(acc \o sentences[1] \o ". ", Tail(sentences), maxLength)

\* The extraction-based fallback of generateSummary.
fallbackSummary(content, maxLength) ==
    LET text == cleanText(content)
        sentences == meaningfulSentences(text)
    IN  IF Len(sentences) > 0
        THEN trim(appendSentences("", slice(sentences, MaxSummarySentences), maxLength))
        ELSE IF Len(text) > maxLength THEN SubSeq(text, 1, maxLength) \o "..."
        ELSE text

AISummaryText == "AI summary."

\* What llmService.generateSummary can give back: a text, null, or a rejection.
SummaryOutcomes == {"text", "null", "throws"}

\* generateSummary(content, fileName) with the default maxLength.
generateSummary(content, ai, outcome) ==
    LET made == [content |-> content, ai |-> ai, outcome |-> outcome, done |-> TRUE]
    IN  IF trim(content) = ""
        THEN made @@ [calls |-> {}, isNull |-> TRUE, text |-> ""]
        ELSE IF ai /\ outcome = "text"
        THEN made @@ [calls |-> {"summarize"}, isNull |-> FALSE, text |-> AISummaryText]
        ELSE made @@ [calls |-> IF ai THEN {"summarize"} ELSE {}, isNull |-> FALSE,
                      text |-> fallbackSummary(content, DefaultMaxLength)]

\* A text of n letters.
RECURSIVE Letters(_)
Letters(n) ==
    IF n = 0 THEN ""
    ELSE LET half == Letters(n \div 2)
         IN  half \o half \o (IF n % 2 = 1 THEN "a" ELSE "")

MaxSentences == 3

\* Sentence lengths around the two thresholds of the fallback.
SentenceLengths == {5, 21, 250, 500, 501}

contentOfLengths(lengths) ==
    joinWith([i \in 1..Len(lengths) |-> Letters(lengths[i])], ". ") \o "."

\* Document texts: up to MaxSentences sentences of the lengths above, and texts with
\* blank, repeated and bracketed lines.
Contents ==
    {contentOfLengths(ls) : ls \in UNION {[1..n -> SentenceLengths] : n \in 1..MaxSentences}}
    \cup {"  \n ",
          "Impact analysis of the change\nImpact analysis of the change\n\n[draft] notes",
          "(see the attached annex for the list). The billing module is changed!  Who signs?",
          Letters(501) \o " " \o Letters(20),
          "(" \o Letters(520)}

\* The calls a handler can make: without AI the summarizer is not consulted.
SummaryCalls ==
    {pendingSummary(content, FALSE, "null") : content \in Contents}
    \cup {pendingSummary(content, TRUE, outcome) :
             content \in Contents, outcome \in SummaryOutcomes}

InitSummary ==
    InitSession /\ summary \in SummaryCalls /\ call = NoCall /\ llmService = ServiceAtMount

GenerateSummary ==
    /\ ~summary.done
    /\ summary' = generateSummary(summary.content, summary.ai, summary.outcome)
    /\ UNCHANGED <<messages, isTyping, currentContext, sourceDocuments, activeDocument,
                   lastFileList, lastSearchResults, lastSuggestedQuestions, recentUploads,
                   conversationHistory, aiEnabled, pendingUploadFile, showPMDocForm,
                   pmDocFormData, inFlight, call, turn, turns, llmService>>

NextSummary == GenerateSummary

SpecSummary == InitSummary /\ [][NextSummary]_vars

(***************************************************************************)
(* Uploads late in a session.  The session starts after a number of        *)
(* successful uploads, so that the list of recent uploads is at or near    *)
(* its capacity when the next file is chosen.                              *)
(***************************************************************************)
MaxPriorUploads == 20

\* The k-th file uploaded before the session is looked at.
priorFile(k) == "Report " \o Str(k) \o ".docx"

\* The session right after the component is mounted.
FreshSession ==
    [messages |-> <<BotMessage(Greeting, <<>>)>>, isTyping |-> FALSE,
     currentContext |-> NULL, sourceDocuments |-> <<>>, activeDocument |-> NULL,
     lastFileList |-> <<>>, lastSearchResults |-> <<>>, lastSuggestedQuestions |-> <<>>,
     recentUploads |-> <<>>, conversationHistory |-> <<>>, pendingUploadFile |-> "",
     showPMDocForm |-> FALSE, pmDocFormData |-> "none",
     branches |-> <<>>, calls |-> {}, response |-> "", attached |-> <<>>, found |-> <<>>,
     searched |-> <<>>]

FreshCaptured ==
    [aiEnabled |-> FALSE, activeDocument |-> NULL, sourceDocuments |-> <<>>,
     currentContext |-> NULL, conversationHistory |-> <<>>, recentUploads |-> <<>>]

RECURSIVE uploadsFrom(_, _, _)

\* The session S after priorFile(k) .. priorFile(n) were chosen and uploaded, each read
\* back in full.
uploadsFrom(S, k, n) ==
    IF k > n THEN S
    ELSE LET T == handleFolderSelected([S EXCEPT !.pendingUploadFile = priorFile(k)],
                                       FreshCaptured, priorFile(k), DefaultEnv)
         IN  IF T.pendingUploadFile = "" /\ Len(T.recentUploads) > 0
             THEN uploadsFrom(T, k + 1, n)
             ELSE S

afterUploads(n) == uploadsFrom(FreshSession, 1, n)

InitUploads ==
    \E n \in 0..MaxPriorUploads :
        LET S == afterUploads(n)
        IN  /\ messages = S.messages
            /\ isTyping = S.isTyping
            /\ currentContext = S.currentContext
            /\ sourceDocuments = S.sourceDocuments
            /\ activeDocument = S.activeDocument
            /\ lastFileList = S.lastFileList
            /\ lastSearchResults = S.lastSearchResults
            /\ lastSuggestedQuestions = S.lastSuggestedQuestions
            /\ recentUploads = S.recentUploads
            /\ conversationHistory = S.conversationHistory
            /\ aiEnabled = FALSE
            /\ pendingUploadFile = S.pendingUploadFile
            /\ showPMDocForm = S.showPMDocForm
            /\ pmDocFormData = S.pmDocFormData
            /\ inFlight = <<>>
            /\ llmService = ServiceAtMount
            /\ summary = pendingSummary("", FALSE, "null")
            /\ call = NoCall
            /\ turn = [op |-> "none", message |-> "", pre |-> NULL, ai |-> FALSE,
                       branches |-> <<>>, calls |-> {}, response |-> "", attached |-> <<>>,
                       found |-> <<>>, searched |-> <<>>,
               last |-> [message |-> "", branches |-> <<>>]]
            /\ turns = 0

NextUploads == FileSelected \/ FolderSelected

SpecUploads == InitUploads /\ [][NextUploads]_vars

(***************************************************************************)
(* Searches after uploads.  The session starts after files were uploaded   *)
(* from the chat, so that a search finds recent uploads next to what the   *)
(* search index returns; one message is sent.                              *)
(***************************************************************************)
\* The files uploaded before the session is looked at, the first one first.
UploadedBefore ==
    {<<>>, <<"CR20050 Plan.docx">>, <<"Scan.pdf", "CR20050 Plan.docx">>,
     <<"CR20050 Plan.docx", "Scan.pdf">>, <<"CR20050 Plan.docx", "CR20050 Plan.docx">>}

RECURSIVE uploadsOf(_, _)

\* The session S after the files were chosen and uploaded in turn, each read back in
\* full.
uploadsOf(S, files) ==
    IF files = <<>> THEN S
    ELSE LET T == handleFolderSelected([S EXCEPT !.pendingUploadFile = Head(files)],
                                       FreshCaptured, Head(files), DefaultEnv)
         IN  IF T.pendingUploadFile = "" /\ Len(T.recentUploads) > 0
             THEN uploadsOf(T, Tail(files))
             ELSE S

InitSearch ==
    \E files \in UploadedBefore :
        LET S == uploadsOf(FreshSession, files)
        IN  /\ messages = S.messages
            /\ isTyping = S.isTyping
            /\ currentContext = S.currentContext
            /\ sourceDocuments = S.sourceDocuments
            /\ activeDocument = S.activeDocument
            /\ lastFileList = S.lastFileList
            /\ lastSearchResults = S.lastSearchResults
            /\ lastSuggestedQuestions = S.lastSuggestedQuestions
            /\ recentUploads = S.recentUploads
            /\ conversationHistory = S.conversationHistory
            /\ aiEnabled = FALSE
            /\ pendingUploadFile = S.pendingUploadFile
            /\ showPMDocForm = S.showPMDocForm
            /\ pmDocFormData = S.pmDocFormData
            /\ inFlight = <<>>
            /\ llmService = ServiceAtMount
            /\ summary = pendingSummary("", FALSE, "null")
            /\ call = NoCall
            /\ turn = [op |-> "none", message |-> "", pre |-> NULL, ai |-> FALSE,
                       branches |-> <<>>, calls |-> {}, response |-> "", attached |-> <<>>,
                       found |-> <<>>, searched |-> <<>>,
                       last |-> [message |-> "", branches |-> <<>>]]
            /\ turns = MaxTurns - 1

NextSearch == Send

SpecSearch == InitSearch /\ [][NextSearch]_vars

(***************************************************************************)
(* Sessions picked up late.  The session starts after a number of messages *)
(* were sent and answered, so that an FAQ topic is open, a document is     *)
(* active or the conversation history is at its window when the next       *)
(* message is sent; one message is sent.                                   *)
(***************************************************************************)
\* The state part of a finished run, as the next run finds it.
nextSession(T) ==
    [T EXCEPT !.branches = <<>>, !.calls = {}, !.response = "", !.attached = <<>>,
              !.found = <<>>, !.searched = <<>>]

\* The values a handler closes over in session S.
capturedIn(S, ai) ==
    [aiEnabled |-> ai, activeDocument |-> S.activeDocument,
     sourceDocuments |-> S.sourceDocuments, currentContext |-> S.currentContext,
     conversationHistory |-> S.conversationHistory, recentUploads |-> S.recentUploads]

\* A message sent earlier and what the backend and the model did with it.
Sent(message, env) == [message |-> message, env |-> env]

RECURSIVE replay(_, _, _)

\* The session S after the messages were sent in turn, each run ending before the next.
replay(S, ai, sent) ==
    IF sent = <<>> THEN S
    ELSE LET T == handleSend(S, capturedIn(S, ai), Head(sent).message, Head(sent).env)
         IN  IF Len(T.messages) > Len(S.messages)
             THEN replay(nextSession(T), ai, Tail(sent))
             ELSE S

AskApproval == Sent("project approval", DefaultEnv)
AskScope == Sent("pmo scope", DefaultEnv)
AskScopeFound == Sent("pmo scope", [DefaultEnv EXCEPT !.store = ContentStore])
ReadCR == Sent("Read CR20049 document", DefaultEnv)
AskDocument == Sent("Who approved it?", DefaultEnv)
Chat == Sent("hi", DefaultEnv)
ReadFound == Sent("Read CR20049 document", [DefaultEnv EXCEPT !.store = ContentStore])
ListRecent == Sent("my recent files", DefaultEnv)
SelectFirst == Sent("1", DefaultEnv)
ReadAsked ==
    Sent("Read CR20049 document", [DefaultEnv EXCEPT !.questions = <<"Who approved it?">>])

RECURSIVE repeated(_, _)
repeated(sent, n) == IF n = 0 THEN <<>> ELSE <<sent>> \o repeated(sent, n - 1)

MaxEarlierQuestions == 5

\* What was sent before the session is looked at, and whether a language model is there.
Earlier ==
    {[ai |-> ai, sent |-> <<>>] : ai \in BOOLEAN}
    \cup {[ai |-> FALSE, sent |-> s] :
             s \in {<<AskApproval>>, <<AskApproval, AskScope>>,
                    <<AskApproval, AskScopeFound>>, <<ReadCR>>}}
    \cup {[ai |-> TRUE, sent |-> s] : s \in {<<AskApproval, AskScope>>, <<ReadAsked>>}}
    \cup {[ai |-> ai, sent |-> s] :
             ai \in BOOLEAN,
             s \in {<<ReadFound, AskApproval>>, <<AskApproval, ListRecent>>,
                    <<AskApproval, ListRecent, SelectFirst>>}}
    \cup {[ai |-> TRUE, sent |-> <<ReadCR>> \o repeated(AskDocument, n)] :
             n \in 0..MaxEarlierQuestions}
    \cup {[ai |-> TRUE, sent |-> repeated(Chat, n)] : n \in 1..MaxEarlierQuestions}
    \cup {[ai |-> TRUE, sent |-> repeated(Chat, n) \o <<ReadCR>>] :
             n \in 3..MaxEarlierQuestions}

\* The component state is that of session S, no run being in flight and one message left
\* to send.
StartsAs(S, ai) ==
    /\ messages = S.messages
    /\ isTyping = S.isTyping
    /\ currentContext = S.currentContext
    /\ sourceDocuments = S.sourceDocuments
    /\ activeDocument = S.activeDocument
    /\ lastFileList = S.lastFileList
    /\ lastSearchResults = S.lastSearchResults
    /\ lastSuggestedQuestions = S.lastSuggestedQuestions
    /\ recentUploads = S.recentUploads
    /\ conversationHistory = S.conversationHistory
    /\ aiEnabled = ai
    /\ pendingUploadFile = S.pendingUploadFile
    /\ showPMDocForm = S.showPMDocForm
    /\ pmDocFormData = S.pmDocFormData
    /\ inFlight = <<>>
    /\ llmService = (IF ai THEN ServiceMounted ELSE ServiceAtMount)
    /\ summary = pendingSummary("", FALSE, "null")
    /\ call = NoCall
    /\ turn = [op |-> "none", message |-> "", pre |-> NULL, ai |-> ai,
               branches |-> <<>>, calls |-> {}, response |-> "", attached |-> <<>>,
               found |-> <<>>, searched |-> <<>>,
               last |-> [message |-> "", branches |-> <<>>]]
    /\ turns = MaxTurns - 1

InitLate == \E e \in Earlier : StartsAs(replay(FreshSession, e.ai, e.sent), e.ai)

NextLate == Send

SpecLate == InitLate /\ [][NextLate]_vars

(***************************************************************************)
(***************************************************************************)
(* The LLM service on its own.  The module is loaded in some build, with   *)
(* the Ollama server up or down; initializeLLM, recheckLLM and             *)
(* setLLMProvider are called in any order, a call of initializeLLM may     *)
(* begin while another waits for the server, and the server starts and     *)
(* stops.                                                                  *)
(***************************************************************************)
MaxServiceCalls == 4
MaxWaiting == 2

\* The ids a caller may pass: the providers, 'none' and an id that names no provider.
ProviderIds ==
    {LLM_PROVIDERS.NONE, LLM_PROVIDERS.CLAUDE, LLM_PROVIDERS.AZURE_OPENAI,
     LLM_PROVIDERS.GROQ, LLM_PROVIDERS.GEMINI, LLM_PROVIDERS.OLLAMA, "openai"}

\* The builds: what the configuration files hold.
Builds == {{}, {LLM_PROVIDERS.GEMINI}, {LLM_PROVIDERS.GROQ, LLM_PROVIDERS.CLAUDE}}

InitProviders ==
    /\ InitSession
    /\ summary = pendingSummary("", FALSE, "null")
    /\ call = NoCall
    /\ \E configured \in Builds, ollamaUp \in BOOLEAN :
          llmService = loadedService(configured, ollamaUp)

serviceStep(service) ==
    /\ llmService' = service
    /\ UNCHANGED <<messages, isTyping, currentContext, sourceDocuments, activeDocument,
                   lastFileList, lastSearchResults, lastSuggestedQuestions, recentUploads,
                   conversationHistory, aiEnabled, pendingUploadFile, showPMDocForm,
                   pmDocFormData, inFlight, summary, call, turn, turns>>

CallInitializeLLM ==
    /\ llmService.calls < MaxServiceCalls
    /\ Len(llmService.waiting) < MaxWaiting
    /\ serviceStep(beginInitializeLLM(llmService, "initializeLLM"))

CallRecheckLLM ==
    /\ llmService.calls < MaxServiceCalls
    /\ Len(llmService.waiting) < MaxWaiting
    /\ serviceStep(beginInitializeLLM(llmService, "recheckLLM"))

\* checkOllamaStatus resolves and the initializeLLM that awaited it runs to its return.
OllamaStatusReturns ==
    \E i \in 1..Len(llmService.waiting) : serviceStep(finishInitializeLLM(llmService, i))

CallSetLLMProvider ==
    /\ llmService.calls < MaxServiceCalls
    /\ \E providerId \in ProviderIds : serviceStep(setLLMProvider(llmService, providerId))

OllamaStarts ==
    /\ ~llmService.ollamaUp
    /\ serviceStep([llmService EXCEPT !.ollamaUp = TRUE])

OllamaStops ==
    /\ llmService.ollamaUp
    /\ serviceStep([llmService EXCEPT !.ollamaUp = FALSE])

NextProviders ==
    \/ CallInitializeLLM
    \/ CallRecheckLLM
    \/ OllamaStatusReturns
    \/ CallSetLLMProvider
    \/ OllamaStarts
    \/ OllamaStops

SpecProviders == InitProviders /\ [][NextProviders]_vars

(* The text functions on their own.  A call is drawn with its argument,    *)
(* one step applies the function and records the result.                   *)
(***************************************************************************)
\* What stands before a CR number in a message: nothing, words, words that hold the
\* letters "cr", a CR with no digits after it, another number.
TextBefore == {"", "Read ", "describe scr", "CR- draft, ", "arogya 123456 "}
CRSpellings == {"CR", "cr", "Cr"}
CRSeparators == {"", " ", "-", "_", " -_ ", "  "}
CRDigits == {"7", "20049", "0012"}
\* What stands after it; none of these begins with a digit.
TextAfter == {"", " impact document", ".docx", " and CR 19637", "-2 arogya files"}

\* A call of extractSearchTerms that was not made yet; digits names the digits of the
\* first CR number the message was put together with, "" when it has none.
pendingTerms(message, digits) ==
    [fn |-> "extractSearchTerms", message |-> message, digits |-> digits,
     done |-> FALSE, result |-> <<>>]

TermCalls ==
    {pendingTerms(p \o c \o s \o d \o x, d) :
        p \in TextBefore, c \in CRSpellings, s \in CRSeparators, d \in CRDigits,
        x \in TextAfter}
    \cup {pendingTerms(input, "") : input \in (Inputs \ {"Read CR20049 document"})}

\* The keywords of the whole table, in table order.
allKeywords ==
    knowledgeBase[1].keywords \o knowledgeBase[2].keywords
    \o knowledgeBase[3].keywords \o knowledgeBase[4].keywords

MaxKeywordsInText == 4

\* The word with its first letter in upper case.
capitalize(w) ==
    LET i == CHOOSE k \in 1..Len(LowerAlpha) : Char(LowerAlpha, k) = Char(w, 1)
    IN  Char(UpperAlpha, i) \o SubSeq(w, 2, Len(w))

\* A text that holds the keywords ks and no other keyword of the table: the bare words,
\* or a question with the words capitalized.
textWith(ks, asQuestion) ==
    LET words == SelectSeq(allKeywords, LAMBDA kw : kw \in ks)
    IN  IF asQuestion
        THEN "What About The " \o joinWith([k \in 1..Len(words) |-> capitalize(words[k])],
                                            " And ") \o "?"
        ELSE joinWith(words, " ")

\* A call of findKnowledgeMatch that was not made yet; keywords names the keywords the
\* text was put together with.
pendingMatch(ks, asQuestion) ==
    [fn |-> "findKnowledgeMatch", text |-> textWith(ks, asQuestion), keywords |-> ks,
     done |-> FALSE, result |-> 0]

MatchCalls ==
    {pendingMatch(ks, q) :
        ks \in {x \in SUBSET {allKeywords[k] : k \in 1..Len(allKeywords)} :
                   Cardinality(x) <= MaxKeywordsInText},
        q \in BOOLEAN}

\* The numbers a user asks for: none, the least, an ordinary one, the greatest, and
\* two that are too large.
CountNumbers == {0, 1, 7, 50, 51, 100}

\* A count phrase: a count keyword and a number, or a number and a noun.
NoPhrase == [word |-> "", sep |-> "", n |-> -1]
KeywordPhrases(kws) ==
    {NoPhrase} \cup [word : kws, sep : {"", " "}, n : CountNumbers]
NounPhrases ==
    {NoPhrase} \cup [word : {"files", "item"}, sep : {" "}, n : CountNumbers]

keywordText(p) == IF p = NoPhrase THEN "" ELSE p.word \o p.sep \o ToString(p.n)
nounText(p) == IF p = NoPhrase THEN "" ELSE ToString(p.n) \o p.sep \o p.word

\* The number the text was given for each of the six patterns, in pattern order; -1 for a
\* pattern that has no phrase in the text.
numbersOf(a, b, c) ==
    [k \in 1..6 |->
        IF k = 6 THEN c.n
        ELSE IF a.word = countKeywords[k] THEN a.n
        ELSE IF b.word = countKeywords[k] THEN b.n
        ELSE -1]

\* A call of getRequestedCount that was not made yet, on a text put together from up to
\* three count phrases.
pendingCount(a, b, c) ==
    [fn |-> "getRequestedCount",
     message |-> "Please " \o keywordText(a) \o " of them, " \o keywordText(b)
                 \o " and " \o nounText(c) \o " now",
     numbers |-> numbersOf(a, b, c), done |-> FALSE, result |-> 0]

CountCalls ==
    {pendingCount(a, b, c) :
        a \in KeywordPhrases({"top", "show", "get"}),
        b \in KeywordPhrases({"first", "list"}),
        c \in NounPhrases}

MaxTokensInText == 2

\* The words of the list that are in the set, in list order or in the opposite order.
wordsIn(list, set, opposite) ==
    LET words == SelectSeq(list, LAMBDA w : w \in set)
    IN  IF opposite THEN Reverse(words) ELSE words

\* A follow-up text that holds the department tokens ds and the change-type tokens ts and
\* no other: the tokens as words of their own in lower case, or inside longer words
\* with a capital.
followUpText(ds, ts, opposite, inWords) ==
    LET dress(w) == IF inWords THEN "My" \o capitalize(w) \o "s" ELSE w
        names(list, set) == joinWith(MapSeq(wordsIn(list, set, opposite), dress), " and ")
    IN  "Change of " \o names(changeTypes, ts) \o " for " \o names(departments, ds)

\* A call of processFollowUp with the project-change topic open that was not made yet.
pendingFollowUp(ds, ts, opposite, inWords) ==
    [fn |-> "processFollowUp", text |-> followUpText(ds, ts, opposite, inWords),
     departments |-> ds, changeTypes |-> ts, done |-> FALSE, result |-> NULL]

FollowUpCalls ==
    {pendingFollowUp(ds, ts, o, w) :
        ds \in {x \in SUBSET {departments[k] : k \in 1..Len(departments)} :
                    Cardinality(x) <= MaxTokensInText},
        ts \in {x \in SUBSET {changeTypes[k] : k \in 1..Len(changeTypes)} :
                    Cardinality(x) <= MaxTokensInText},
        o \in BOOLEAN, w \in BOOLEAN}

TextCalls == TermCalls \cup MatchCalls \cup CountCalls \cup FollowUpCalls

InitText ==
    /\ InitSession
    /\ summary = pendingSummary("", FALSE, "null")
    /\ call \in TextCalls
    /\ llmService = ServiceAtMount

ExtractSearchTerms ==
    /\ call.fn = "extractSearchTerms" /\ ~call.done
    /\ call' = [call EXCEPT !.done = TRUE, !.result = extractSearchTerms(call.message)]
    /\ UNCHANGED <<messages, isTyping, currentContext, sourceDocuments, activeDocument,
                   lastFileList, lastSearchResults, lastSuggestedQuestions, recentUploads,
                   conversationHistory, aiEnabled, pendingUploadFile, showPMDocForm,
                   pmDocFormData, inFlight, summary, turn, turns, llmService>>

FindKnowledgeMatch ==
    /\ call.fn = "findKnowledgeMatch" /\ ~call.done
    /\ call' = [call EXCEPT !.done = TRUE, !.result = findKnowledgeMatch(call.text)]
    /\ UNCHANGED <<messages, isTyping, currentContext, sourceDocuments, activeDocument,
                   lastFileList, lastSearchResults, lastSuggestedQuestions, recentUploads,
                   conversationHistory, aiEnabled, pendingUploadFile, showPMDocForm,
                   pmDocFormData, inFlight, summary, turn, turns, llmService>>

GetRequestedCount ==
    /\ call.fn = "getRequestedCount" /\ ~call.done
    /\ call' = [call EXCEPT !.done = TRUE, !.result = getRequestedCount(call.message)]
    /\ UNCHANGED <<messages, isTyping, currentContext, sourceDocuments, activeDocument,
                   lastFileList, lastSearchResults, lastSuggestedQuestions, recentUploads,
                   conversationHistory, aiEnabled, pendingUploadFile, showPMDocForm,
                   pmDocFormData, inFlight, summary, turn, turns, llmService>>

ProcessFollowUp ==
    /\ call.fn = "processFollowUp" /\ ~call.done
    /\ call' = [call EXCEPT !.done = TRUE, !.result = processFollowUp(call.text, 1)]
    /\ UNCHANGED <<messages, isTyping, currentContext, sourceDocuments, activeDocument,
                   lastFileList, lastSearchResults, lastSuggestedQuestions, recentUploads,
                   conversationHistory, aiEnabled, pendingUploadFile, showPMDocForm,
                   pmDocFormData, inFlight, summary, turn, turns, llmService>>

NextText ==
    ExtractSearchTerms \/ FindKnowledgeMatch \/ GetRequestedCount \/ ProcessFollowUp

SpecText == InitText /\ [][NextText]_vars

(***************************************************************************)
(* Properties.  They are stated over the history variable turn: the input  *)
(* of the last handler run, the state it started in and its trace.         *)
(***************************************************************************)
stateFields ==
    {"messages", "isTyping", "currentContext", "sourceDocuments", "activeDocument",
     "lastFileList", "lastSearchResults", "lastSuggestedQuestions", "recentUploads",
     "conversationHistory", "pendingUploadFile", "showPMDocForm", "pmDocFormData"}

project(T) == [f \in stateFields |-> T[f]]

isSendTurn == turn.op = "handleSend"

\* The values the handler of the last run had closed over.
preCaptured ==
    [aiEnabled |-> turn.ai, activeDocument |-> turn.pre.activeDocument,
     sourceDocuments |-> turn.pre.sourceDocuments,
     currentContext |-> turn.pre.currentContext,
     conversationHistory |-> turn.pre.conversationHistory,
     recentUploads |-> turn.pre.recentUploads]

withUserMessage(P, text) == [P EXCEPT !.messages = Append(@, UserMessage(text))]

finalBranch == turn.branches[Len(turn.branches)]

selectedSuggestion == turn.branches[1] = "suggestedQuestion"

\* The question the digits of the last run named.
pickedQuestion == turn.pre.lastSuggestedQuestions[intent(turn.message).number]

\* The branch the current state would route a text to.
nextBranch(text) == route(withUserMessage(Session, text), Captured, intent(text))

branchOrder ==
    <<"showAll", "recentFiles", "suggestedQuestion", "fileSelection", "newDocument",
      "readSummarize", "pmDocument", "documentQA", "media", "source", "fileSearch",
      "followUp", "default">>

\* The guard of each branch, taken on its own.
guardHolds(b, S, c, message) ==
    LET m == intent(message)
    IN  CASE b = "showAll" -> m.showAll /\ Len(S.lastSearchResults) > 1
          [] b = "recentFiles" -> m.recentFiles
          [] b = "suggestedQuestion" ->
                 m.isNumberSelection /\ m.number \in 1..Len(S.lastSuggestedQuestions)
          [] b = "fileSelection" -> m.isNumberSelection /\ Len(S.lastFileList) > 0
          [] b = "newDocument" -> m.newDocument
          [] b = "readSummarize" -> m.isReadSummaryRequest
          [] b = "pmDocument" -> m.pmDocument
          [] b = "documentQA" ->
                 c.aiEnabled /\ c.activeDocument # NULL /\ m.isDocumentQuestion
          [] b = "media" -> m.isMediaRequest
          [] b = "source" -> m.isSourceRequest
          [] b = "fileSearch" -> m.isFileSearchRequest
          [] b = "followUp" -> c.currentContext # NULL
          [] OTHER -> TRUE

firstMatching(S, c, message) ==
    branchOrder[CHOOSE i \in 1..Len(branchOrder) :
                    /\ guardHolds(branchOrder[i], S, c, message)
                    /\ \A j \in 1..(i - 1) : ~guardHolds(branchOrder[j], S, c, message)]

\* The branches of a run: one per invocation, the second that of the re-sent question.
expectedBranches(P, c, message) ==
    LET S1 == withUserMessage(P, message)
        first == firstMatching(S1, c, message)
    IN  IF first = "suggestedQuestion"
        THEN <<first, firstMatching([S1 EXCEPT !.lastSuggestedQuestions = <<>>], c,
                                    P.lastSuggestedQuestions[intent(message).number])>>
        ELSE <<first>>

\* The session fields a branch writes (every branch appends messages and ends typing).
mayChange(b) ==
    {"messages", "isTyping"} \cup
    CASE b \in {"showAll", "recentFiles"} -> {"sourceDocuments", "lastFileList"}
      [] b = "suggestedQuestion" -> {"lastSuggestedQuestions"}
      [] b = "fileSelection" -> {"sourceDocuments", "activeDocument"}
      [] b = "newDocument" -> {"activeDocument"}
      [] b = "readSummarize" ->
             {"sourceDocuments", "activeDocument", "lastSuggestedQuestions",
              "lastFileList", "lastSearchResults", "currentContext"}
      [] b = "pmDocument" -> {"showPMDocForm", "pmDocFormData"}
      [] b = "documentQA" -> {"conversationHistory"}
      [] b \in {"media", "fileSearch"} ->
             {"sourceDocuments", "lastFileList", "currentContext"}
      [] b = "source" -> {"sourceDocuments"}
      [] b = "followUp" -> {"sourceDocuments", "lastFileList", "currentContext"}
      [] OTHER -> {"sourceDocuments", "lastFileList", "currentContext",
                   "conversationHistory"}

\* The collaborator operations a branch can call.
mayCall(b) ==
    CASE b \in {"showAll", "newDocument", "suggestedQuestion"} -> {}
      [] b = "recentFiles" -> {"getRecentFiles"}
      [] b = "fileSelection" ->
             {"getDocumentContent", "getVideoTranscript", "summarize", "answer"}
      [] b = "readSummarize" ->
             {"searchFiles", "getFileById", "getDocumentContent", "getVideoTranscript",
              "summarize", "answer"}
      [] b \in {"pmDocument", "documentQA"} -> {"answer"}
      [] b = "media" -> {"searchMedia"}
      [] b = "source" -> {"searchFiles"}
      [] b \in {"fileSearch", "followUp"} -> {"searchFiles", "getFileById"}
      [] OTHER -> {"searchFiles", "getFileById", "chat"}

\* C1: every handleSend invocation runs exactly one routing branch, the first in the
\* order show-all, recent files, suggested question, file selection, new document,
\* read/summarize, PM document, document Q&A, media, source, file search, follow-up,
\* default whose guard holds for the message and the state; the run writes only the
\* session fields of that branch and calls only its collaborators.
C1_FirstMatchingBranchWins ==
    isSendTurn =>
        /\ turn.branches = expectedBranches(turn.pre, preCaptured, turn.message)
        /\ \A f \in stateFields \ UNION {mayChange(turn.branches[i]) :
                                            i \in 1..Len(turn.branches)} :
               Session[f] = turn.pre[f]
        /\ turn.calls \subseteq mayCall(finalBranch)

\* A run in which the guards of two branches held and the earlier one was taken.
C1_Witness ==
    /\ isSendTurn
    /\ turn.branches = <<"showAll">>
    /\ intent(turn.message).recentFiles
    /\ lastFileList = turn.pre.lastSearchResults

\* C2: in every reachable state at most one of lastFileList and lastSuggestedQuestions
\* is non-empty, so digits typed after a fresh file list never pick a stale question.
C2_AtMostOneListActive ==
    ~(Len(lastFileList) > 0 /\ Len(lastSuggestedQuestions) > 0)


\* A run of handleSend on a digits-only message.
isDigitsTurn == isSendTurn /\ intent(turn.message).isNumberSelection

\* A run in which the digits picked a suggested question.
isSelectionTurn == isSendTurn /\ selectedSuggestion

\* The direct call the selection is compared with: handleSend on the question text.
directCall(P, env) == handleSend(P, preCaptured, pickedQuestion, env)

emptied == [turn.pre EXCEPT !.lastSuggestedQuestions = <<>>]

turnEnvs == EnvsFor(turn.pre, preCaptured, turn.message)

\* C3 as stated: a digits-only message that names a suggested question empties
\* lastSuggestedQuestions and then ends with the bot response and the session state,
\* messages included, of a direct handleSend of the question text from the state in
\* which only the list was emptied.
C3_SameAsDirectCall ==
    isSelectionTurn =>
        \E env \in turnEnvs :
            /\ project(Session) = project(directCall(emptied, env))
            /\ turn.response = directCall(emptied, env).response

\* C3, amended: the run ends like the direct call made once the digits are in the
\* messages list and the suggestion list is empty; against a direct call made before
\* the digits were sent it differs in the messages list, and only by the digits-only
\* user message in front of the question.
C3_SameAsDirectCallAfterDigits ==
    isSelectionTurn =>
        \E env \in turnEnvs :
            LET direct == directCall(emptied, env)
                after == directCall(withUserMessage(emptied, turn.message), env)
                n == Len(turn.pre.messages)
            IN  /\ project(Session) = project(after)
                /\ turn.response = after.response /\ turn.attached = after.attached
                /\ turn.response = direct.response /\ turn.attached = direct.attached
                /\ \A f \in stateFields \ {"messages"} : Session[f] = direct[f]
                /\ messages = SubSeq(direct.messages, 1, n)
                              \o <<UserMessage(turn.message)>>
                              \o SubSeq(direct.messages, n + 1, Len(direct.messages))

\* A selection of the second question: digits, question and reply are in the list.
C3_Witness ==
    /\ isSelectionTurn
    /\ turn.message = "2"
    /\ Len(messages) = Len(turn.pre.messages) + 3
    /\ messages[Len(turn.pre.messages) + 2] = UserMessage(pickedQuestion)

\* C4 as stated: right after digits picked a suggested question, the same digits
\* never pick a suggested question again, whatever branch handled the question.
C4_NoRepeatedSelection ==
    isSelectionTurn => nextBranch(turn.message) # "suggestedQuestion"

\* C4, amended: the same digits pick a suggested question again only when the
\* question was handled by read/summarize and that run stored a fresh list;
\* after every other branch the list is empty and the digits go to the later guards.
C4_RepeatOnlyAfterFreshSuggestions ==
    /\ isSelectionTurn =>
          /\ finalBranch # "readSummarize" =>
                /\ lastSuggestedQuestions = <<>>
                /\ nextBranch(turn.message) # "suggestedQuestion"
          /\ nextBranch(turn.message) = "suggestedQuestion" =>
                /\ finalBranch = "readSummarize"
                /\ "answer" \in turn.calls
                /\ lastSuggestedQuestions # <<>>
    /\ ( /\ isSendTurn
         /\ Len(turn.last.branches) = 2
         /\ turn.last.branches[2] # "readSummarize"
         /\ turn.message = turn.last.message )
       => turn.branches[1] # "suggestedQuestion"

\* A question answered from the active document: the list is empty afterwards.
C4_Witness ==
    /\ isSelectionTurn
    /\ turn.branches = <<"suggestedQuestion", "documentQA">>
    /\ nextBranch(turn.message) \in {"followUp", "default"}

\* C5: a handleSend run re-invokes itself at most once; the nested invocation never
\* takes the suggested-question branch, even for a suggestion that is digits only.
C5_AtMostOneReinvocation ==
    isSendTurn =>
        /\ Len(turn.branches) \in 1..2
        /\ Len(turn.branches) = 1 => turn.branches[1] # "suggestedQuestion"
        /\ Len(turn.branches) = 2 =>
              /\ turn.branches[1] = "suggestedQuestion"
              /\ turn.branches[2] # "suggestedQuestion"

\* The picked suggestion was itself digits only and in range of the list it came from.
C5_Witness ==
    /\ isSelectionTurn
    /\ isNumberSelection(pickedQuestion)
    /\ parseInt(pickedQuestion) \in 1..Len(turn.pre.lastSuggestedQuestions)
    /\ Len(turn.branches) = 2

isInvalidSelection(text) ==
    startsWith(text, "Invalid selection. Please enter a number between 1 and ")

\* C6 as stated: a digits-only message with no active list, or with a number outside
\* 1..N of the active list, is answered with exactly the invalid-selection message,
\* calls no collaborator and leaves activeDocument and sourceDocuments unchanged.
C6_DigitsWithoutSelectionAreInvalid ==
    ( /\ isDigitsTurn
      /\ intent(turn.message).number \notin 1..Len(turn.pre.lastSuggestedQuestions)
      /\ intent(turn.message).number \notin 1..Len(turn.pre.lastFileList) )
    => /\ isInvalidSelection(turn.response)
       /\ turn.calls = {}
       /\ activeDocument = turn.pre.activeDocument
       /\ sourceDocuments = turn.pre.sourceDocuments

\* C6, amended: digits that pick no suggested question get the invalid-selection
\* message exactly when lastFileList is non-empty and the number is outside 1..N, N
\* its length; then nothing is called and activeDocument and sourceDocuments stay.
\* With an empty lastFileList the digits are handled by the follow-up or default
\* branch like any other text.
C6_InvalidSelectionOnlyWithFileList ==
    (isDigitsTurn /\ ~selectedSuggestion) =>
        LET N == Len(turn.pre.lastFileList)
            number == intent(turn.message).number
        IN  /\ (N > 0 /\ number \notin 1..N) =>
                  /\ turn.response =
                         "Invalid selection. Please enter a number between 1 and "
                         \o Str(N) \o "."
                  /\ turn.branches = <<"fileSelection">>
                  /\ turn.calls = {}
                  /\ activeDocument = turn.pre.activeDocument
                  /\ sourceDocuments = turn.pre.sourceDocuments
            /\ (N > 0 /\ number \in 1..N) => ~isInvalidSelection(turn.response)
            /\ N = 0 =>
                  /\ ~isInvalidSelection(turn.response)
                  /\ turn.branches[1] \in {"followUp", "default"}

\* Digits beyond the end of the displayed file list.
C6_Witness ==
    /\ isDigitsTurn
    /\ turn.branches = <<"fileSelection">>
    /\ intent(turn.message).number > Len(turn.pre.lastFileList)
    /\ isInvalidSelection(turn.response)

\* The last run listed files: show-all, recent files, media, file search, fallback search.
listedFiles ==
    \/ finalBranch \in {"showAll", "recentFiles", "media", "fileSearch"}
    \/ finalBranch \in {"followUp", "default"} /\ Len(turn.found) > 0

\* C7 as stated: after a turn whose bot response carries file results, lastFileList
\* and sourceDocuments both equal the files attached to the response.
C7_FileResultsReplaceBothLists ==
    (isSendTurn /\ Len(turn.attached) > 0) =>
        /\ lastFileList = turn.attached
        /\ sourceDocuments = turn.attached

\* C7, amended: the attached files are always published as sourceDocuments;
\* lastFileList is replaced by them only by the listing branches (show-all, recent
\* files, media, file search, fallback search).  A numbered selection, a read, a
\* source lookup and a document answer leave lastFileList as it was, except that a
\* read that stores suggested questions empties it.
C7_FileResultsPublishedAsSources ==
    (isSendTurn /\ Len(turn.attached) > 0) =>
        /\ sourceDocuments = turn.attached
        /\ listedFiles => lastFileList = turn.attached
        /\ ~listedFiles => lastFileList \in {turn.pre.lastFileList, <<>>}

\* A file picked by number from a longer list: the list stays for the next number.
C7_Witness ==
    /\ isSendTurn
    /\ turn.branches = <<"fileSelection">>
    /\ Len(turn.attached) = 1
    /\ sourceDocuments = turn.attached
    /\ Len(lastFileList) > 1

\* C8: after a turn whose file search (read/summarize, file search, fallback search)
\* returned more than one result, lastSearchResults is that search's result set.
C8_LastSearchResultsFollowSearch ==
    ( /\ isSendTurn
      /\ finalBranch \in {"readSummarize", "fileSearch", "followUp", "default"}
      /\ Len(turn.found) > 1 )
    => lastSearchResults = turn.found

\* C9: a new-document message after a successful read sets activeDocument to null;
\* while it is null isDocumentQuestion is false for every message and the document
\* Q&A branch is not taken, and only a successful read sets it again.
C9_NewDocumentEndsDocumentQA ==
    /\ (isSendTurn /\ finalBranch = "newDocument") => activeDocument = NULL
    /\ activeDocument = NULL =>
          \A text \in Texts :
              /\ ~isDocumentQuestion(text, activeDocument)
              /\ nextBranch(text) # "documentQA"
    /\ (isSendTurn /\ turn.pre.activeDocument = NULL) =>
          \A i \in 1..Len(turn.branches) : turn.branches[i] # "documentQA"
    /\ (turn.op # "none" /\ turn.pre.activeDocument = NULL /\ activeDocument # NULL) =>
          /\ turn.calls \cap {"getDocumentContent", "getVideoTranscript"} # {}
          /\ activeDocument.content.length > 0

\* "new document" typed while a document that was read is active.
C9_Witness ==
    /\ isSendTurn
    /\ turn.message = "new document"
    /\ turn.pre.activeDocument # NULL
    /\ turn.ai
    /\ activeDocument = NULL

\* C10: after a turn handled by the new-document guard sourceDocuments is empty.
C10_NewDocumentClearsSources ==
    (isSendTurn /\ finalBranch = "newDocument") => sourceDocuments = <<>>

modelOperations == {"summarize", "answer", "chat"}

\* C11: in a handler run that starts with aiEnabled false (any handleSend branch, the
\* PM-document branch and numbered selection included, and the upload handlers) no
\* summarize, answer or chat operation of the language model is called.
C11_NoModelCallWithoutAI ==
    (turn.op # "none" /\ ~turn.ai) => turn.calls \cap modelOperations = {}

readOperations == {"getDocumentContent", "getVideoTranscript"}

\* A collaborator failed in the run that ended in T under the outcomes env: the token
\* could not be acquired, a read that was made gave nothing back, or a call to the
\* language model that was made failed.
collaboratorFailed(T, env) ==
    \/ ~env.auth
    \/ env.read = "none" /\ T.calls \cap readOperations # {}
    \/ env.answer = "error" /\ T.calls \cap modelOperations # {}

lastMessage(T) == T.messages[Len(T.messages)]

\* The run that ended in T, started from P, has finished: the typing indicator is off
\* and a bot message was appended after the user message.
completedWithBotMessage(P, T) ==
    /\ ~T.isTyping
    /\ Len(T.messages) >= Len(P.messages) + 2
    /\ lastMessage(T).type = "bot"

\* C12: whatever collaborator fails during a handleSend run, in any branch (the simplify
\* and task-breakdown modes of document Q&A included), the run still ends with the
\* typing indicator off and a bot message appended.
C12_FailedRunStillReplies ==
    isSendTurn =>
        \A env \in turnEnvs :
            LET T == handleSend(turn.pre, preCaptured, turn.message, env)
            IN  collaboratorFailed(T, env) => completedWithBotMessage(turn.pre, T)

\* A selected "simplify" suggestion was answered by document Q&A while the language
\* model failed, and the run ended with a reply.
C12_Witness ==
    /\ isSendTurn
    /\ turn.branches = <<"suggestedQuestion", "documentQA">>
    /\ intent(pickedQuestion).isLaymanRequest
    /\ SubSeq(turn.response, Len(turn.response) - Len(AnswerErrorText) + 1,
              Len(turn.response)) = AnswerErrorText
    /\ ~isTyping
    /\ lastMessage(Session).type = "bot"

\* The handleSend invocations that are waiting.
sendsInFlight == SelectSeq(inFlight, LAMBDA inv : inv.branch # "pmPrefill")

\* C13: at most one handleSend invocation is waiting for a collaborator at any time; no
\* submission path (send button, Enter key, question card) starts a second one while
\* the first is waiting.
C13_AtMostOneInFlight == Len(sendsInFlight) <= 1

IsPrefix(s, t) == Len(s) <= Len(t) /\ SubSeq(t, 1, Len(s)) = s

\* C14: every step of every operation (a handleSend run in any branch, whole or split
\* at its await and interleaved with other runs, a file selection, an upload, a PM
\* document generation) leaves the messages list as it was or extends it: the list
\* before the step is a prefix of the list after it.
C14_MessagesOnlyGrow == [][IsPrefix(messages, messages')]_vars

\* Two runs have interleaved: both user messages were appended before either reply.
C14_Witness ==
    /\ Len(messages) = 5
    /\ inFlight = <<>>
    /\ messages[2].type = "user" /\ messages[3].type = "user"
    /\ messages[4].type = "bot" /\ messages[5].type = "bot"

\* The last run was a numbered selection of a file of the list then on display.
selectionInRange ==
    /\ isSendTurn
    /\ turn.branches = <<"fileSelection">>
    /\ intent(turn.message).number \in 1..Len(turn.pre.lastFileList)

selectedFile == turn.pre.lastFileList[intent(turn.message).number]

\* The read operation that fits the selected file's name.
readFor(file) == IF isVideoFile(file.name) THEN "getVideoTranscript" ELSE "getDocumentContent"

\* C15 as stated: an in-range numbered file selection calls getVideoTranscript and not
\* getDocumentContent for a video name, getDocumentContent and not getVideoTranscript
\* for any other name.
C15_SelectionReadsByExtension ==
    selectionInRange => turn.calls \cap readOperations = {readFor(selectedFile)}

\* C15, amended: an in-range numbered file selection never calls the read operation of
\* the other kind, and calls the one that fits the name exactly when a token was
\* acquired.
C15_SelectionReadsByExtensionWithToken ==
    selectionInRange =>
        \A env \in turnEnvs :
            handleSend(turn.pre, preCaptured, turn.message, env).calls \cap readOperations
                = IF env.auth THEN {readFor(selectedFile)} ELSE {}

\* A video was selected by number and its transcript was asked for.
C15_Witness ==
    /\ selectionInRange
    /\ isVideoFile(selectedFile.name)
    /\ turn.calls \cap readOperations = {"getVideoTranscript"}

TopFifteen == "top 15 documents"

\* The last run handled "top 15 documents" with no list on display and no active
\* document.
topFifteenTurn ==
    /\ isSendTurn
    /\ turn.message = TopFifteen
    /\ turn.pre.lastFileList = <<>>
    /\ turn.pre.lastSuggestedQuestions = <<>>
    /\ turn.pre.activeDocument = NULL

\* C16: "top 15 documents" (no active lists, no active document) is handled by the
\* generic file search, which, given a token, queries searchFiles, keeps the doc, docx
\* and pdf files and stores the first min(15, number kept) of them as the displayed
\* list.
C16_TopFifteenListsDocuments ==
    topFifteenTurn =>
        \A env \in turnEnvs :
            LET T == handleSend(turn.pre, preCaptured, turn.message, env)
            IN  /\ T.branches = <<"fileSearch">>
                /\ env.auth =>
                      /\ "searchFiles" \in T.calls
                      /\ T.lastFileList =
                            slice(SelectSeq(T.found, LAMBDA f : isDocOrPdf(f.name)), 15)

ShowArogya == "Show Arogya Sanjeevani files"

showArogyaTurn == isSendTurn /\ turn.message = ShowArogya

\* The run of "Show Arogya Sanjeevani files" under the outcomes env went through the
\* generic file search with the single term "Arogya Sanjeevani" and, when searchFiles
\* gave back at least one file, stored the displayed list in lastFileList.
searchedArogya(T, env) ==
    /\ T.branches = <<"fileSearch">>
    /\ intent(ShowArogya).searchTerms = <<"Arogya Sanjeevani">>
    /\ env.auth => "searchFiles" \in T.calls
    /\ SelectSeq(T.found, LAMBDA f : ~f.isFolder) # <<>> =>
          T.lastFileList # <<>> /\ T.lastFileList = T.attached

\* C17 as stated: in every session state the message "Show Arogya Sanjeevani files" is
\* handled by the generic file search with the single term "Arogya Sanjeevani", and
\* lastFileList is set to the displayed list when a file is found.
C17_ShowArogyaAlwaysSearches ==
    showArogyaTurn =>
        \A env \in turnEnvs :
            searchedArogya(handleSend(turn.pre, preCaptured, turn.message, env), env)

\* C17, amended: the message is handled by the generic file search, as above, unless AI
\* is enabled and a document is active; then it is a document question (it starts with
\* "show") and is answered from the active document with no file search.
C17_ShowArogyaSearchesUnlessDocumentActive ==
    showArogyaTurn =>
        \A env \in turnEnvs :
            LET T == handleSend(turn.pre, preCaptured, turn.message, env)
            IN  IF turn.ai /\ turn.pre.activeDocument # NULL
                THEN /\ T.branches = <<"documentQA">>
                     /\ "searchFiles" \notin T.calls
                     /\ T.lastFileList = turn.pre.lastFileList
                ELSE searchedArogya(T, env)

\* The message was sent while another file list was on display and the search stored
\* the files it displayed in its place.
C17_Witness ==
    /\ showArogyaTurn
    /\ turn.pre.lastFileList # <<>>
    /\ turn.pre.lastFileList # lastFileList
    /\ turn.branches = <<"fileSearch">>
    /\ lastFileList # <<>>
    /\ lastFileList = turn.attached

\* C18: when the answer operation fails during a document-Q&A turn, in the plain, the
\* simplify or the task-breakdown mode, the bot response is the generic
\* could-not-find-an-answer text and the error text is not presented as an answer from
\* the document.
C18_FailedAnswerIsNotPresented ==
    (isSendTurn /\ finalBranch = "documentQA") =>
        \A env \in turnEnvs :
            env.answer = "error" =>
                handleSend(turn.pre, preCaptured, turn.message, env).response = NoAnswerText

\* The last generateSummary call was made with AI disabled on a non-blank text.
fallbackCall == summary.done /\ ~summary.ai /\ trim(summary.content) # ""

\* The result is built from whole sentences of the text that are longer than 20
\* characters: each "sentence. " piece of it is such a sentence of the cleaned text.
wholeSentencesOf(result, content) ==
    LET pieces == SelectSeq(trimAll(splitAtRuns(result, SentenceEnds)),
                            LAMBDA t : t # "")
        sentences == meaningfulSentences(cleanText(content))
    IN  \A k \in 1..Len(pieces) : SeqContains(sentences, pieces[k])

\* C19: with aiEnabled false, generateSummary on a non-blank text makes no summarizer
\* call and returns a non-null, non-empty string of at most 500 characters built from
\* whole sentences longer than 20 characters, whatever the lengths of the sentences.
C19_FallbackSummaryIsBounded ==
    fallbackCall =>
        /\ summary.calls = {}
        /\ ~summary.isNull
        /\ summary.text # ""
        /\ Len(summary.text) <= DefaultMaxLength
        /\ wholeSentencesOf(summary.text, summary.content)

\* A file uploadFile accepts: a supported extension and a size within the maximum.
uploadable(name) ==
    /\ SeqContains(SUPPORTED_UPLOAD_EXTENSIONS, extensionOf(name))
    /\ fileSize(name) <= MAX_UPLOAD_SIZE

rejectedFileTurn == turn.op = "handleFileSelected" /\ ~uploadable(turn.message)

\* C20: uploadFile is called only for a file with a supported extension and a size
\* within the maximum: the pending upload, whichever path set it (file picker,
\* drag-and-drop, generated PM document), is always such a file; and a rejected file
\* appends an "Upload failed" bot message and changes nothing else, the pending upload
\* included.
C20_OnlyValidFilesAreUploaded ==
    /\ pendingUploadFile # "" => uploadable(pendingUploadFile)
    /\ (turn.op = "handleFolderSelected" /\ "uploadFile" \in turn.calls) =>
           uploadable(turn.message)
    /\ rejectedFileTurn =>
           /\ messages = Append(turn.pre.messages, lastMessage(Session))
           /\ lastMessage(Session).type = "bot"
           /\ startsWith(lastMessage(Session).text, "Upload failed")
           /\ turn.calls = {}
           /\ \A f \in stateFields \ {"messages"} : Session[f] = turn.pre[f]

\* A file over the size limit was picked and refused.
C20_Witness ==
    /\ rejectedFileTurn
    /\ fileSize(turn.message) > MAX_UPLOAD_SIZE
    /\ startsWith(lastMessage(Session).text, "Upload failed: File too large")
    /\ pendingUploadFile = turn.pre.pendingUploadFile

\* A handler run that uploaded the pending file to the backend.
uploadSucceeded(t) == t.op = "handleFolderSelected" /\ "uploadFile" \in t.calls

\* C21: recentUploads never holds more than 20 entries; a successful upload puts its file
\* first and keeps the earlier entries behind it in their order, the oldest one leaving
\* when there would be 21; no other step changes the list.
C21_RecentUploadsBoundedNewestFirst ==
    [][/\ Len(recentUploads') <= 20
       /\ IF turns' # turns /\ uploadSucceeded(turn')
          THEN /\ recentUploads'[1].name = turn'.message
               /\ Tail(recentUploads') = SubSeq(recentUploads, 1, Min(Len(recentUploads), 19))
          ELSE recentUploads' = recentUploads]_vars

\* An upload succeeded when the list already held 20 entries.
C21_Witness ==
    /\ uploadSucceeded(turn)
    /\ Len(turn.pre.recentUploads) = 20
    /\ Len(recentUploads) = 20
    /\ recentUploads[1].name = turn.message
    /\ recentUploads[20] = turn.pre.recentUploads[19]

\* C22: for a message that holds a CR number (CR in any case, then spaces, hyphens or
\* underscores, then the digits n), extractSearchTerms returns exactly CRn, CR_n, "CR n",
\* CR-n and n, in that order, whatever stands before and after the number.
C22_CRNumberGivesFiveTerms ==
    (call.fn = "extractSearchTerms" /\ call.done /\ call.digits # "") =>
        call.result = <<"CR" \o call.digits, "CR_" \o call.digits, "CR " \o call.digits,
                        "CR-" \o call.digits, call.digits>>

\* The terms of a lower-case, hyphenated CR number in the middle of a message that also
\* names a product and another number.
C22_Witness ==
    /\ call.fn = "extractSearchTerms" /\ call.done
    /\ call.message = "arogya 123456 cr -_ 0012-2 arogya files"
    /\ call.result = <<"CR0012", "CR_0012", "CR 0012", "CR-0012", "0012">>

\* The number of keywords of entry n among the keywords a text was put together with.
keywordsOf(n, ks) ==
    Cardinality({k \in 1..Len(knowledgeBase[n].keywords) : knowledgeBase[n].keywords[k] \in ks})

\* C23: findKnowledgeMatch returns the first entry of the table, in table order, with at
\* least two of its keywords in the text, and null (0) when no entry has two; an entry
\* with exactly one of its keywords in the text is never the one returned.
C23_FirstEntryWithTwoKeywords ==
    (call.fn = "findKnowledgeMatch" /\ call.done) =>
        /\ \A n \in 1..Len(knowledgeBase) :
               call.result = n <=> /\ keywordsOf(n, call.keywords) >= 2
                                   /\ \A m \in 1..(n - 1) : keywordsOf(m, call.keywords) < 2
        /\ call.result = 0 <=> \A n \in 1..Len(knowledgeBase) : keywordsOf(n, call.keywords) < 2
        /\ \A n \in 1..Len(knowledgeBase) :
               keywordsOf(n, call.keywords) = 1 => call.result # n

\* A question with two keywords of the leave entry and two of the expense entry is
\* answered by the leave entry, which comes first.
C23_Witness ==
    /\ call.fn = "findKnowledgeMatch" /\ call.done
    /\ call.text = "What About The Leave And Pto And Expense And Claim?"
    /\ call.result = 2

\* The last run went straight into the read/summarize pipeline.
readSummarizeTurn == isSendTurn /\ turn.branches = <<"readSummarize">>

\* What the pipeline keeps of the results of one term: the readable files when there
\* are any and no video was asked for, else all of them.
keptResults(env, term) ==
    LET allResults == searchDocuments(preCaptured, env, term)
        readable == SelectSeq(allResults, isReadable)
    IN  IF ~intent(turn.message).wantsVideo /\ readable # <<>> THEN readable ELSE allResults

\* The kept results of the term hold a file whose name includes the term.
hasNameMatch(env, term) ==
    LET kept == keptResults(env, term)
    IN  \E k \in 1..Len(kept) : nameIncludes(kept[k], term)

\* The position of the first term of the list for which P holds, 0 without one.
firstTerm(terms, P(_)) ==
    LET with == {k \in 1..Len(terms) : P(terms[k])}
    IN  IF with = {} THEN 0 ELSE CHOOSE k \in with : \A j \in with : k <= j

Range(seq) == {seq[k] : k \in 1..Len(seq)}

\* C24: the read/summarize pipeline searches the candidate terms in list order and stops
\* with the first term whose kept results hold a file whose name includes the term: the
\* terms searched are the list up to that term, and its results are the ones used; with
\* no such term every term is searched and the results of the first term that has any
\* are used.  The search depends on the token and on what the backend holds only, so the
\* outcomes that differ in these are looked at.
C24_ScanStopsAtFirstNameMatch ==
    readSummarizeTurn =>
        \A env \in StoreEnvs :
            LET T == handleSend(turn.pre, preCaptured, turn.message, env)
                terms == intent(turn.message).searchTerms
                hit == firstTerm(terms, LAMBDA t : hasNameMatch(env, t))
                some == firstTerm(terms, LAMBDA t : keptResults(env, t) # <<>>)
            IN  /\ T.searched = IF hit > 0 THEN SubSeq(terms, 1, hit) ELSE terms
                /\ Range(T.found) = IF hit > 0 THEN Range(keptResults(env, terms[hit]))
                                    ELSE IF some > 0 THEN Range(keptResults(env, terms[some]))
                                    ELSE {}

\* The first CR spelling was found in the content of another file, the fourth in the
\* name of the plan: four terms were searched and the fifth was not.
C24_Witness ==
    /\ readSummarizeTurn
    /\ turn.searched = <<"CR20049", "CR_20049", "CR 20049", "CR-20049">>
    /\ turn.found = <<crPlan>>

\* No spelling was found in a name: all five were searched and the first results kept.
C24_FallbackReached ==
    /\ readSummarizeTurn
    /\ Len(turn.searched) = 5
    /\ turn.found = <<sopDoc>>

\* The last run went into the read/summarize pipeline with a message that signals no
\* video intent.
readWithoutVideoIntent == readSummarizeTurn /\ ~intent(turn.message).wantsVideo

C26_ActiveDocumentHoldsContent ==
    activeDocument # NULL =>
        IF activeDocument.isVideo
        THEN activeDocument.content.length > 0
        ELSE activeDocument.content.length > 50

\* An uploaded file was read back in full and became the active document.
C26_Witness ==
    /\ turn.op = "handleFolderSelected"
    /\ activeDocument # NULL
    /\ ~activeDocument.isVideo
    /\ activeDocument.name = turn.message
    /\ activeDocument.content.length > 50

\* A run asked for the content of a document or for a transcript and left no active
\* document.
C26_ShortContentReached ==
    /\ isSendTurn
    /\ turn.calls \cap readOperations # {}
    /\ turn.pre.activeDocument = NULL
    /\ activeDocument = NULL

\* The step set activeDocument to the document it read: the one sourceDocuments names.
setToDocumentRead ==
    /\ activeDocument' # NULL
    /\ turn'.calls \cap readOperations # {}
    /\ Len(sourceDocuments') = 1
    /\ activeDocument'.id = sourceDocuments'[1].id
    /\ activeDocument'.name = sourceDocuments'[1].name
    /\ activeDocument'.content.of = sourceDocuments'[1].id

\* The step cleared activeDocument through the new-document guard or the close button.
clearedOnRequest ==
    /\ activeDocument' = NULL
    /\ \/ turn'.op = "close"
       \/ turn'.op = "handleSend" /\ "newDocument" \in Range(turn'.branches)

\* The last run was a read/summarize or numbered-selection run; under the outcomes env
\* it had a target whose content could not be used (no token, nothing returned, at most
\* 50 characters, no transcript), and it left the active document as it was and named
\* the target in sourceDocuments.
failedReadKeepsActive ==
    (readSummarizeTurn \/ selectionInRange) =>
        \A env \in turnEnvs :
            LET T == handleSend(turn.pre, preCaptured, turn.message, env)
                hasTarget == selectionInRange \/ T.found # <<>>
                target == IF selectionInRange THEN selectedFile ELSE T.found[1]
            IN  (hasTarget /\ (~env.auth \/ env.read # "long")) =>
                    /\ T.activeDocument = turn.pre.activeDocument
                    /\ Len(T.sourceDocuments) = 1
                    /\ T.sourceDocuments[1].id = target.id

\* C27: activeDocument changes only by a successful content or transcript read, which
\* sets it to the document just read, or by the new-document guard or the close button,
\* which set it to null; a read/summarize or numbered-selection run whose target cannot
\* be read or has at most 50 characters of content leaves the previous activeDocument in
\* place while sourceDocuments names the new target.
C27_ActiveDocumentChangesOnlyByReadOrClear ==
    /\ [][activeDocument' # activeDocument => (setToDocumentRead \/ clearedOnRequest)]_vars
    /\ []failedReadKeepsActive

\* A second read found only a recording without a transcript: the document read before
\* is still the active one, and sourceDocuments names the recording.
C27_Witness ==
    /\ readSummarizeTurn
    /\ turn.pre.activeDocument # NULL
    /\ activeDocument = turn.pre.activeDocument
    /\ Len(sourceDocuments) = 1
    /\ sourceDocuments[1].id # activeDocument.id
    /\ "getVideoTranscript" \in turn.calls

(***************************************************************************)
(* The length of the list a generic file search stores.                    *)
(***************************************************************************)
fileSearchTurn == isSendTurn /\ turn.branches = <<"fileSearch">>

\* The count the message asks for: its explicit count, else 5 for a message that wants
\* multiple files, else 1.
countAskedFor(message) ==
    LET m == intent(message)
    IN  IF m.requestedCount # 0 THEN m.requestedCount
        ELSE IF m.wantsMultipleFiles THEN 5 ELSE 1

firstOf(files, n) == [k \in 1..Min(n, Len(files)) |-> files[k]]

\* C28: in the generic file-search pipeline the list stored in lastFileList is the first
\* min(c, number of filtered results) filtered results, c being the explicit requested
\* count if there is one, else 5 if the message wants multiple files, else 1; the list
\* never holds more than 50 files; for every outcome of the backend.
C28_ListIsFirstCountFiltered ==
    fileSearchTurn =>
        \A env \in StoreEnvs :
            LET T == handleSend(turn.pre, preCaptured, turn.message, env)
                m == intent(turn.message)
                filtered == applyFileFilters(T.found, m.wantsFolders, m.wantsDocumentsOnly)
            IN  filtered # <<>> =>
                    /\ T.lastFileList = firstOf(filtered, countAskedFor(turn.message))
                    /\ Len(T.lastFileList) <= 50

\* A search with an explicit count of 2 found three files and stored the first two.
C28_Witness ==
    /\ fileSearchTurn
    /\ intent(turn.message).requestedCount = 2
    /\ Len(turn.found) = 3
    /\ lastFileList = <<turn.found[1], turn.found[2]>>

\* A search without a count and without a multiple-files word stored one file of three.
C28_SingleFileReached ==
    /\ fileSearchTurn
    /\ ~intent(turn.message).wantsMultipleFiles
    /\ Len(turn.found) = 3
    /\ lastFileList = <<turn.found[1]>>

(***************************************************************************)
(* Duplicates in the list a generic file search stores.                    *)
(***************************************************************************)
\* The results of the terms of the message, one term after the other.
resultsInTermOrder(env) ==
    concatResults(preCaptured, env, intent(turn.message).searchTerms)

\* The position of the first record with the id.
firstWithId(files, id) ==
    CHOOSE k \in 1..Len(files) : files[k].id = id /\ \A j \in 1..(k - 1) : files[j].id # id

hasDuplicateIds(files) == \E a, b \in 1..Len(files) : a # b /\ files[a].id = files[b].id

\* C29: the list a generic file search stores in lastFileList holds no two records with
\* the same id, and each record of it is the first one with its id among the results
\* taken in term order, the records following each other as those first occurrences do;
\* whatever the terms' results and the recent uploads share.
C29_NoDuplicateFirstOccurrenceKept ==
    fileSearchTurn =>
        \A env \in StoreEnvs :
            LET T == handleSend(turn.pre, preCaptured, turn.message, env)
                m == intent(turn.message)
                stored == applyFileFilters(T.found, m.wantsFolders,
                                           m.wantsDocumentsOnly) # <<>>
                all == resultsInTermOrder(env)
                list == T.lastFileList
            IN  stored =>
                    /\ ~hasDuplicateIds(list)
                    /\ \A k \in 1..Len(list) :
                          /\ \E p \in 1..Len(all) : all[p].id = list[k].id
                          /\ list[k] = all[firstWithId(all, list[k].id)]
                    /\ \A a, b \in 1..Len(list) :
                          a < b => firstWithId(all, list[a].id) < firstWithId(all, list[b].id)

\* A search whose terms match a recent upload more than once, and whose backend returns
\* a file for more than one term, stored a list in which each of them stands once.
C29_Witness ==
    /\ fileSearchTurn
    /\ "getFileById" \in turn.calls
    /\ Cardinality({k \in 1..Len(intent(turn.message).searchTerms) :
                       nameIncludes(uploadedPlan, intent(turn.message).searchTerms[k])}) > 1
    /\ Len(turn.pre.recentUploads) = 2
    /\ turn.pre.recentUploads[1].id = turn.pre.recentUploads[2].id
    /\ Len(lastFileList) = 2
    /\ lastFileList[1] = uploadedPlan
    /\ lastFileList[2].id \in {"f1", "f2", "f3"}

\* The search index returned the uploaded file itself, for more than one term.
C29_IndexedUploadReached ==
    /\ fileSearchTurn
    /\ turn.pre.recentUploads # <<>>
    /\ "getFileById" \notin turn.calls
    /\ lastFileList = <<uploadedPlan>>

(***************************************************************************)
(* Show-all messages.                                                      *)
(***************************************************************************)
\* The message holds one of the show-all phrases.
showAllMessage ==
    /\ isSendTurn
    /\ \/ includes(toLowerCase(turn.message), "show all files")
       \/ includes(toLowerCase(turn.message), "show all")
       \/ includes(toLowerCase(turn.message), "see more")

\* C30: a show-all message with more than one stored search result makes no
\* FileRepository call and sets both lastFileList and sourceDocuments to the complete
\* lastSearchResults; with at most one stored result the show-all guard does not fire,
\* a later guard handles the message, and a message that holds "all files" is handled by
\* the recent-files guard, which lists the recent files the backend returns.
C30_ShowAllListsStoredResults ==
    showAllMessage =>
        \A env \in turnEnvs :
            LET T == handleSend(turn.pre, preCaptured, turn.message, env)
                stored == turn.pre.lastSearchResults
                recent == getRecentFiles(env.store)
            IN  IF Len(stored) > 1
                THEN /\ T.branches = <<"showAll">>
                     /\ T.calls = {}
                     /\ T.lastFileList = stored
                     /\ T.sourceDocuments = stored
                     /\ T.lastSearchResults = stored
                ELSE /\ Len(T.branches) = 1
                     /\ T.branches[1] \in Range(branchOrder) \ {"showAll"}
                     /\ includes(toLowerCase(turn.message), "all files") =>
                           /\ T.branches = <<"recentFiles">>
                           /\ (env.auth /\ recent # <<>>) =>
                                 /\ "getRecentFiles" \in T.calls
                                 /\ T.lastFileList # <<>>
                                 /\ T.sourceDocuments = T.lastFileList
                                 /\ \A k \in 1..Len(T.lastFileList) :
                                       T.lastFileList[k] \in Range(recent)

\* A show-all message was sent with three stored search results and listed them without
\* a call.
C30_Witness ==
    /\ showAllMessage
    /\ Len(turn.pre.lastSearchResults) = 3
    /\ turn.pre.lastFileList # turn.pre.lastSearchResults
    /\ turn.branches = <<"showAll">>
    /\ turn.calls = {}
    /\ lastFileList = turn.pre.lastSearchResults
    /\ sourceDocuments = lastFileList

\* "show all files" was sent after a read that found one file, which stored no search
\* result, and listed the recent files.
C30_NoStoredResultReached ==
    /\ showAllMessage
    /\ turn.last.branches = <<"readSummarize">>
    /\ turn.pre.lastSearchResults = <<>>
    /\ turn.branches = <<"recentFiles">>
    /\ "getRecentFiles" \in turn.calls
    /\ lastFileList # <<>>

\* "see more" was sent with no stored search result and fell through to a search.
C30_SeeMoreFallsThrough ==
    /\ showAllMessage
    /\ turn.message = "see more"
    /\ turn.pre.lastSearchResults = <<>>
    /\ turn.branches = <<"default">>

(***************************************************************************)
(* Source requests.                                                        *)
(***************************************************************************)
sourceTurn == isSendTurn /\ turn.branches = <<"source">>

\* The open FAQ context names a source file.
hasLastSourceFile(S) == S.currentContext # NULL /\ S.currentContext.lastSourceFile # ""

\* C31: a source request with non-empty sourceDocuments lists them, makes no
\* FileRepository call and leaves sourceDocuments unchanged; FileRepository is searched
\* only when sourceDocuments is empty and the open FAQ context has a lastSourceFile;
\* with neither, the response is the no-source apology.
C31_SourceRequestListsOrLooksUp ==
    sourceTurn =>
        \A env \in StoreEnvs :
            LET T == handleSend(turn.pre, preCaptured, turn.message, env)
                sources == turn.pre.sourceDocuments
            IN  /\ sources # <<>> =>
                      /\ T.calls = {}
                      /\ T.sourceDocuments = sources
                      /\ \A k \in 1..Len(sources) : includes(T.response, sources[k].name)
                /\ T.calls # {} =>
                      /\ T.calls = {"searchFiles"}
                      /\ sources = <<>>
                      /\ hasLastSourceFile(turn.pre)
                /\ (sources = <<>> /\ hasLastSourceFile(turn.pre) /\ env.auth) =>
                      T.calls = {"searchFiles"}
                /\ (sources = <<>> /\ ~hasLastSourceFile(turn.pre)) =>
                      /\ T.sourceDocuments = <<>>
                      /\ T.response =
                            "I don't have a specific source for the previous response. Could you ask a question first?"

\* A source request with no source document and an answered follow-up searched the
\* backend for the source file of the answer.
C31_Witness ==
    /\ sourceTurn
    /\ turn.pre.sourceDocuments = <<>>
    /\ hasLastSourceFile(turn.pre)
    /\ turn.calls = {"searchFiles"}

\* A source request listed the source document of an answered follow-up without a call.
C31_ListedWithOpenContext ==
    /\ sourceTurn
    /\ turn.pre.sourceDocuments # <<>>
    /\ hasLastSourceFile(turn.pre)
    /\ turn.calls = {}
    /\ sourceDocuments = turn.pre.sourceDocuments

\* A source request with nothing to name got the apology.
C31_ApologyReached ==
    /\ sourceTurn
    /\ turn.pre.sourceDocuments = <<>>
    /\ ~hasLastSourceFile(turn.pre)
    /\ turn.pre.currentContext # NULL

(***************************************************************************)
(* The conversation history.                                               *)
(***************************************************************************)
documentQATurn == isSendTurn /\ finalBranch = "documentQA"

alternates(history) ==
    \A k \in 1..Len(history) :
        history[k].role = IF k % 2 = 1 THEN "user" ELSE "assistant"

\* The last n entries of the history, all of them when there are fewer.
lastEntries(history, n) ==
    [k \in 1..Min(n, Len(history)) |-> history[Len(history) - Min(n, Len(history)) + k]]

\* C32: conversationHistory holds at most 10 entries, at most 8 right after a
\* document-Q&A turn (the last 6 of the previous entries and the new pair of user and
\* assistant entries), and its entries alternate user, assistant, the first one being a
\* user entry.
C32_HistoryIsBoundedAndAlternates ==
    /\ Len(conversationHistory) <= 10
    /\ alternates(conversationHistory)
    /\ documentQATurn =>
          /\ Len(conversationHistory) <= 8
          /\ Len(conversationHistory) >= 2
          /\ SubSeq(conversationHistory, 1, Len(conversationHistory) - 2)
                = lastEntries(turn.pre.conversationHistory, 6)
          /\ conversationHistory[Len(conversationHistory) - 1].role = "user"
          /\ conversationHistory[Len(conversationHistory)].role = "assistant"
          /\ conversationHistory[Len(conversationHistory)].content = turn.response

\* A document question was asked with 10 entries in the history and left 8.
C32_Witness ==
    /\ documentQATurn
    /\ Len(turn.pre.conversationHistory) = 10
    /\ Len(conversationHistory) = 8

\* A chat message was sent with 10 entries in the history and left 10.
C32_ChatAtWindowReached ==
    /\ isSendTurn
    /\ "chat" \in turn.calls
    /\ Len(turn.pre.conversationHistory) = 10
    /\ Len(conversationHistory) = 10
    /\ conversationHistory # turn.pre.conversationHistory

(***************************************************************************)
(* Turns of a user who is not signed in.                                   *)
(***************************************************************************)
\* The backend outcome of a user who is not authenticated, or whose token could not be
\* acquired.
NotSignedIn == [DefaultEnv EXCEPT !.auth = FALSE]

repositoryOperations ==
    {"searchFiles", "getFileById", "getRecentFiles", "searchMedia", "getDocumentContent",
     "getVideoTranscript", "uploadFile"}

\* The last run was a handleSend in a branch that asks the backend, and the user was not
\* signed in.
notSignedInTurn == isSendTurn /\ NotSignedIn \in turnEnvs

\* C33: when the user is not authenticated or token acquisition fails, no FileRepository
\* operation is called, the turn still ends with a bot message, and activeDocument,
\* sourceDocuments, lastFileList, lastSearchResults and lastSuggestedQuestions are
\* unchanged by that turn.
C33_NotSignedInChangesNothing ==
    notSignedInTurn =>
        LET T == handleSend(turn.pre, preCaptured, turn.message, NotSignedIn)
        IN  /\ T.calls \cap repositoryOperations = {}
            /\ Len(T.messages) = Len(turn.pre.messages) + 2
            /\ T.messages[Len(T.messages)].type = "bot"
            /\ ~T.isTyping
            /\ T.activeDocument = turn.pre.activeDocument
            /\ T.sourceDocuments = turn.pre.sourceDocuments
            /\ T.lastFileList = turn.pre.lastFileList
            /\ T.lastSearchResults = turn.pre.lastSearchResults
            /\ T.lastSuggestedQuestions = turn.pre.lastSuggestedQuestions

(***************************************************************************)
(* The requested count.                                                    *)
(***************************************************************************)
countCalled == call.fn = "getRequestedCount" /\ call.done

\* The patterns that have a phrase in the text.
matchedPatterns == {k \in 1..6 : call.numbers[k] >= 0}

firstOfPatterns(ks) == CHOOSE a \in ks : \A b \in ks : a <= b

clamped(n) == IF n < 1 THEN 1 ELSE IF n > 50 THEN 50 ELSE n

\* A list of n entries.
listOf(n) == [k \in 1..n |-> k]

\* C34 as stated: getRequestedCount returns the number of the first count pattern that
\* matches, in the listed pattern order, clamped to the range 1..50, and null only when no
\* pattern matches; a list sliced by the requested count has at most 50 entries.
C34_FirstMatchClamped ==
    countCalled =>
        /\ IF matchedPatterns = {} THEN call.result = 0
           ELSE call.result = clamped(call.numbers[firstOfPatterns(matchedPatterns)])
        /\ call.result # 0 => Len(slice(listOf(60), call.result)) <= 50

\* C34, amended: getRequestedCount returns the number of the first pattern, in the listed
\* pattern order, whose match is a number in 1..50; a match with a number outside that
\* range is passed over, and the result is null when no pattern has a match in range; a
\* list sliced by the requested count has at most 50 entries.
C34_FirstMatchInRange ==
    countCalled =>
        LET inRange == {k \in matchedPatterns : call.numbers[k] \in 1..50}
        IN  /\ IF inRange = {} THEN call.result = 0
               ELSE call.result = call.numbers[firstOfPatterns(inRange)]
            /\ call.result \in 0..50
            /\ call.result # 0 => Len(slice(listOf(60), call.result)) <= 50

\* A text whose first matching pattern asks for too many and whose later pattern asks for
\* a number in range: the later number is returned.
C34_Witness ==
    /\ countCalled
    /\ call.numbers[1] = 100
    /\ call.numbers[4] = 7
    /\ call.numbers[6] = 50
    /\ call.result = 7

\* The only match asks for too many and the result is null.
C34_NullWithMatchReached ==
    /\ countCalled
    /\ matchedPatterns = {1}
    /\ call.numbers[1] = 51
    /\ call.result = 0

followUpCalled == call.fn = "processFollowUp" /\ call.done

\* The first word of the list that is among the tokens the text was built from.
firstToken(list, tokens) ==
    LET words == wordsIn(list, tokens, FALSE)
    IN  IF words = <<>> THEN "" ELSE words[1]

\* The department and change-type pairs the project-change topic has an answer for.
answeredPairs ==
    {<<"pmo", "scope">>, <<"pmo", "timeline">>, <<"pmo", "cost">>, <<"finance", "scope">>}

\* The key of the answer for a department and a change type: the department's own, else
\* the one of pmo, "" when pmo has none either.
answerKey(dept, changeType) ==
    IF <<dept, changeType>> \in answeredPairs THEN dept \o "." \o changeType
    ELSE IF <<"pmo", changeType>> \in answeredPairs THEN "pmo." \o changeType
    ELSE ""

\* C35: with the project_change topic open, processFollowUp resolves an answer only for
\* a text that contains a department token and a change-type token; the answer is the
\* one of the first listed department in the text for the first listed change type in
\* the text, the one of pmo for that change type when the department has none, and
\* null when pmo has none either, which is the change type 'budget'.
C35_ProjectChangeFollowUp ==
    followUpCalled =>
        LET dept == firstToken(departments, call.departments)
            changeType == firstToken(changeTypes, call.changeTypes)
        IN  /\ call.result # NULL => dept # "" /\ changeType # ""
            /\ dept # "" /\ changeType # "" =>
                   IF answerKey(dept, changeType) = ""
                   THEN call.result = NULL /\ changeType = "budget"
                   ELSE /\ call.result # NULL
                        /\ call.result.key = answerKey(dept, changeType)

\* A department without an answer of its own for the change type gets the one of pmo.
C35_Witness ==
    /\ followUpCalled
    /\ call.departments = {"hr"} /\ call.changeTypes = {"cost"}
    /\ call.result # NULL
    /\ call.result.key = "pmo.cost"

\* A department's own answer is preferred to the one of pmo.
C35_OwnEntryReached ==
    /\ followUpCalled
    /\ call.departments = {"finance"} /\ call.changeTypes = {"scope"}
    /\ call.result # NULL
    /\ call.result.key = "finance.scope"

\* A budget change resolves nothing, whatever the department.
C35_BudgetReached ==
    /\ followUpCalled
    /\ call.departments = {"pmo"} /\ call.changeTypes = {"budget"}
    /\ call.result = NULL

\* A text without a department resolves nothing.
C35_NoDepartmentReached ==
    /\ followUpCalled
    /\ call.departments = {} /\ call.changeTypes = {"scope"}
    /\ call.result = NULL

(***************************************************************************)
(* What a question about the active document leaves alone.                 *)
(***************************************************************************)
\* The session as the invocation that answered from the active document found it: the one
\* before the turn, and after typed digits that named a suggested question the one in
\* which the digits were appended and the suggestion list was emptied.
documentQAStart ==
    IF selectedSuggestion THEN withUserMessage(emptied, turn.message) ELSE turn.pre

\* The text the invocation that took the final branch was given.
routedText == IF selectedSuggestion THEN pickedQuestion ELSE turn.message

\* C36: a document-Q&A turn changes only messages and conversationHistory:
\* activeDocument, sourceDocuments, lastFileList, lastSearchResults,
\* lastSuggestedQuestions and currentContext are what they were when the invocation
\* began, and no FileRepository operation is called.
C36_DocumentQAChangesOnlyHistory ==
    documentQATurn =>
        /\ \A f \in stateFields \ {"messages", "conversationHistory"} :
               project(Session)[f] = documentQAStart[f]
        /\ turn.calls \cap repositoryOperations = {}
        /\ Len(messages) = Len(documentQAStart.messages) + 2
        /\ lastEntries(conversationHistory, 2) =
               <<[role |-> "user", content |-> routedText],
                 [role |-> "assistant", content |-> turn.response]>>

\* A question about the active document was answered in a session with sources on display,
\* a file list and an open topic.
C36_Witness ==
    /\ documentQATurn /\ ~selectedSuggestion
    /\ turn.pre.sourceDocuments # <<>>
    /\ turn.pre.currentContext # NULL
    /\ turn.response # NoAnswerText

\* A question that found no answer.
C36_NoAnswerReached ==
    /\ documentQATurn
    /\ turn.pre.sourceDocuments # <<>>
    /\ turn.response = NoAnswerText

\* Digits that named a suggested question about the active document.
C36_ViaSuggestionReached ==
    /\ documentQATurn /\ selectedSuggestion
    /\ turn.pre.lastSuggestedQuestions # <<>>
    /\ lastSuggestedQuestions = <<>>

(***************************************************************************)
(* The open FAQ topic.                                                     *)
(***************************************************************************)
clearingBranches == {"readSummarize", "media", "fileSearch"}

keepingBranches ==
    {"showAll", "recentFiles", "fileSelection", "newDocument", "pmDocument", "documentQA",
     "source"}

\* The context a knowledge-base match opens.
openedTopic(match) == [topic |-> match, lastSourceFile |-> "", resolved |-> FALSE]

\* The last run resolved a follow-up of the open topic.
resolvedFollowUp ==
    /\ isSendTurn /\ finalBranch = "followUp"
    /\ intent(routedText).followUp[turn.pre.currentContext.topic] # NULL

\* C38: currentContext becomes non-null only through a KnowledgeBase match in the FAQ
\* follow-up or default branch; every read/summarize, media and generic file-search turn
\* resets it to null; the show-all, recent-files, number-selection, new-document,
\* PM-document, document-Q&A and source branches leave it unchanged, as does everything
\* that is not a sent message; resolving a follow-up keeps the topic and only records
\* lastSourceFile and resolved.
C38_ContextOpensOnlyOnKnowledgeMatch ==
    turn.op # "none" =>
        /\ ~isSendTurn => currentContext = turn.pre.currentContext
        /\ isSendTurn =>
            /\ currentContext # NULL /\ currentContext # turn.pre.currentContext =>
                   /\ finalBranch \in {"followUp", "default"}
                   /\ \/ /\ intent(routedText).knowledgeMatch # 0
                         /\ currentContext = openedTopic(intent(routedText).knowledgeMatch)
                      \/ resolvedFollowUp
            /\ turn.pre.currentContext = NULL /\ currentContext # NULL =>
                   finalBranch = "default"
            /\ finalBranch \in clearingBranches => currentContext = NULL
            /\ finalBranch \in keepingBranches =>
                   currentContext = turn.pre.currentContext
            /\ resolvedFollowUp =>
                   /\ currentContext # NULL
                   /\ currentContext.topic = turn.pre.currentContext.topic
                   /\ currentContext =
                          [turn.pre.currentContext EXCEPT
                              !.lastSourceFile =
                                  intent(routedText).followUp[
                                      turn.pre.currentContext.topic].sourceFile,
                              !.resolved = TRUE]

\* A listed file was selected by its number while a topic was open: the document became
\* active and the topic stayed open.
C38_Witness ==
    /\ isSendTurn /\ finalBranch = "fileSelection"
    /\ turn.pre.currentContext # NULL
    /\ currentContext = turn.pre.currentContext
    /\ activeDocument # turn.pre.activeDocument

\* A follow-up was resolved.
C38_ResolvedReached ==
    /\ resolvedFollowUp
    /\ ~turn.pre.currentContext.resolved
    /\ currentContext.resolved

\* A read closed the open topic.
C38_ClearedReached ==
    /\ isSendTurn /\ finalBranch = "readSummarize"
    /\ turn.pre.currentContext # NULL
    /\ currentContext = NULL

\* The topic was opened anew after a follow-up of it had been resolved.
C38_TopicReopenedReached ==
    /\ isSendTurn /\ finalBranch = "followUp"
    /\ ~resolvedFollowUp
    /\ turn.pre.currentContext.resolved
    /\ currentContext = openedTopic(turn.pre.currentContext.topic)

\* Each branch that leaves the context alone ran with a topic open.
C38_ShowAllKeptReached ==
    isSendTurn /\ finalBranch = "showAll" /\ turn.pre.currentContext # NULL

C38_RecentKeptReached ==
    isSendTurn /\ finalBranch = "recentFiles" /\ turn.pre.currentContext # NULL

C38_NewDocumentKeptReached ==
    isSendTurn /\ finalBranch = "newDocument" /\ turn.pre.currentContext # NULL

C38_PMDocumentKeptReached ==
    isSendTurn /\ finalBranch = "pmDocument" /\ turn.pre.currentContext # NULL

C38_SourceKeptReached ==
    isSendTurn /\ finalBranch = "source" /\ turn.pre.currentContext # NULL

C38_MediaClearedReached ==
    isSendTurn /\ finalBranch = "media" /\ turn.pre.currentContext # NULL

C38_FileSearchClearedReached ==
    isSendTurn /\ finalBranch = "fileSearch" /\ turn.pre.currentContext # NULL

(***************************************************************************)
(* The active provider.                                                    *)
(***************************************************************************)
activeIsAvailable ==
    \/ llmService.activeProvider = LLM_PROVIDERS.NONE
    \/ SeqContains(llmService.availableProviders, llmService.activeProvider)

\* The last call was setLLMProvider with an id that was not among the available providers.
rejectedProvider ==
    llmService.last.fn = "setLLMProvider" /\ ~llmService.last.wasAvailable

\* C39: after any sequence of initializeLLM, recheckLLM and setLLMProvider calls the
\* active provider is NONE or a member of the current availableProviders list, and
\* setLLMProvider with an id that is not available returns false and leaves the active
\* provider as it was.
C39_ActiveProviderIsAvailable ==
    /\ activeIsAvailable
    /\ rejectedProvider =>
           /\ llmService.last.returned = FALSE
           /\ llmService.activeProvider = llmService.last.activeBefore

\* The part of C39 about setLLMProvider alone: an id that is not available is refused
\* and the active provider stays, an available one becomes the active provider.
C39_SetLLMProviderRefusesUnavailable ==
    llmService.last.fn = "setLLMProvider" =>
        IF llmService.last.wasAvailable
        THEN /\ llmService.last.returned = TRUE
             /\ llmService.activeProvider = llmService.last.providerId
        ELSE /\ llmService.last.returned = FALSE
             /\ llmService.activeProvider = llmService.last.activeBefore

\* The active provider is one that was found by an earlier initializeLLM and is not in
\* the list of the latest one.
C39_StaleActiveReached ==
    /\ llmService.waiting = <<>>
    /\ llmService.last.fn = "recheckLLM"
    /\ llmService.activeProvider = LLM_PROVIDERS.OLLAMA
    /\ llmService.availableProviders = <<>>

\* An id that is not available was refused while a provider was active.
C39_RefusedReached ==
    /\ rejectedProvider
    /\ llmService.last.providerId = LLM_PROVIDERS.OLLAMA
    /\ llmService.activeProvider = LLM_PROVIDERS.GEMINI

(***************************************************************************)
(* Every message is answered.                                              *)
(***************************************************************************)
\* A run appends at most three messages: typed digits, the question they named and the
\* reply.
MaxMessageCount == 1 + 3 * MaxTurns

userAt(k) == Len(messages) >= k /\ messages[k].type = "user"

answeredAt(k) == \E j \in (k + 1)..Len(messages) : messages[j].type = "bot"

\* The text was typed or clicked and handleSend takes it for a PM-document request.
asksPMDocument(text) == text \in Texts /\ intent(text).pmDocument

\* The message at k asked for a PM document and the PM form is open.
formOpenedFor(k) ==
    userAt(k) /\ asksPMDocument(messages[k].text) /\ showPMDocForm

C37_BlankFormReached ==
    /\ inFlight = <<>>
    /\ userAt(Len(messages))
    /\ asksPMDocument(messages[Len(messages)].text)
    /\ showPMDocForm /\ pmDocFormData = "blank"

\* handleGeneratePMDoc waits for the model after the handleSend that started it has
\* returned, with the typing indicator on.
C37_PrefillWaitingReached ==
    /\ sendsInFlight = <<>>
    /\ inFlight # <<>>
    /\ isTyping

\* Typed digits named a suggested question and the re-sent question was answered.
C37_ShortcutAnsweredReached ==
    /\ inFlight = <<>>
    /\ Len(messages) >= 4
    /\ userAt(Len(messages) - 2) /\ userAt(Len(messages) - 1)
    /\ isNumberSelection(messages[Len(messages) - 2].text)
    /\ messages[Len(messages)].type = "bot"

=============================================================================
